---- MODULE Spec2Model ----
\* Model of the magic-wormhole client core: the event driver of src/core.rs
\* (do_api, do_io, _execute), the blocking I/O glue of src/io/blocking.rs
\* (CoreWrapper, the WebSocket and timer threads, the Wormhole front end) and
\* the thirteen sub-machines the driver dispatches to.  The sub-machines live
\* in modules that core.rs only declares (mod boss; mod rendezvous; ...), so
\* their transition functions are written from the component descriptions of
\* the specification.
EXTENDS Integers, Sequences, FiniteSets, TLC

\* ---------------------------------------------------------------- bounds
MaxSends == 2          \* send_message calls made by the application
MaxLost == 1           \* WebSocket connections the environment breaks
MaxPeerPhase == 0      \* highest numbered phase the peer posts
MaxChan == 2           \* frames waiting in the channel to the core thread
MaxApiActions == 3     \* API actions the core thread sends on while getters run
MaxGets == 4           \* calls of one-shot getters the application makes
MaxFile == 3           \* bytes of the file that is sent
BlockSize == 2         \* bytes send_records reads at a time (4096 in the code)
UsizeMod == 8          \* stands for 2^64, the number of values of a usize
MaxFlips == 1          \* bits the network flips in a file transfer
MaxPlain == 5           \* bytes of the plaintext of one record
NonceBytes == 2         \* bytes of a nonce (secretbox::NONCEBYTES, 24 in the code)
BufLen == 2             \* bytes of the read buffer of receive_record (1024 in the code)
LenBytes == 3           \* bytes of the length before a record (4 in the code), of one bit each
U32Mod == 8             \* stands for 2^32, the number of values of the length
MaxPeerMsgs == 3        \* messages a peer of any kind sends to the receiver
MaxHints == 3          \* hints in a transit message

ReconnectDelay == 5    \* seconds, the constant handed to RendezvousMachine::new

\* ---------------------------------------------------------------- values
PhasePake == -2
PhaseVersion == -1
\* the phases the peer posts, in the order the server relays them
PeerPhases == <<PhasePake, PhaseVersion>> \o [i \in 1..(MaxPeerPhase + 1) |-> i - 1]

MyCode == "4-purple-sausages"
Codes == {"4-purple-sausages", "4-purple-potato"}
MySide == "me"
PeerSide == "peer"

Moods == {"happy", "lonely", "scared", "errory", "unwelcome"}

\* An event of the bus: the machine (or "API" / "IO" / "Timing") it is
\* addressed to, its name, and its operands: h a WebSocket or timer handle,
\* p a phase, b a string (plaintext, mood, code, nameplate), s a side, k the
\* key a body is encrypted under, f the type of a server frame.
Ev(m, t, p, b) ==
    [m |-> m, t |-> t, h |-> 0, p |-> p, b |-> b, s |-> "", k |-> "", f |-> ""]

\* A request to put the frame f on the wire, addressed to Rendezvous.
Tx(f, p, b, k) == [Ev("Rendezvous", "Tx", p, b) EXCEPT !.f = f, !.k = k, !.s = MySide]

\* What a transition returns: the core with the machine's new state, and the
\* events the transition lists, in order.
Ret(c, out) == [c |-> c, out |-> out]

\* The key SPAKE2 yields on this side from the peer's pake body (the code the
\* peer used): both sides get the same key only when the codes agree.
DeriveKey(mycode, pakebody) == IF pakebody = mycode THEN "k-shared" ELSE "k-mine"

\* The key the peer encrypts its phases with.
PeerKey(peercode) == IF peercode = MyCode THEN "k-shared" ELSE "k-peer"

\* ------------------------------------------------------------------ Boss
\* faulty variant: a Boss that is never terminal (C8 must detect it)
BossNeverTerminal(c) == FALSE

\* once GotClosed is out the Boss is terminal and accepts no further event
BossTerminal(c) == c.boss.state = "Closed"

\* faulty variant: a Boss that closes on an error without the mood errory
\* (C9 must detect it)
BossErrorKeepsMood(c) ==
    CASE BossTerminal(c) -> Ret(c, <<>>)
      [] c.boss.state = "Closing" -> Ret(c, <<>>)
      [] OTHER ->
            Ret([c EXCEPT !.boss.state = "Closing"],
                <<Ev("Terminator", "Close", 0, c.boss.mood)>>)

BossError(c) ==
    \* an error event reaching the Boss: the session closes with mood errory
    CASE BossTerminal(c) -> Ret(c, <<>>)
      [] c.boss.state = "Closing" ->
            Ret([c EXCEPT !.boss.mood = "errory"], <<>>)
      [] OTHER ->
            Ret([c EXCEPT !.boss.state = "Closing", !.boss.mood = "errory"],
                <<Ev("Terminator", "Close", 0, "errory")>>)

BossCloseWith(c, mood) ==
    Ret([c EXCEPT !.boss.state = "Closing", !.boss.mood = mood],
        <<Ev("Terminator", "Close", 0, mood)>>)

Boss_process_api(c, e) ==
    LET st == c.boss.state IN
    CASE BossTerminal(c) -> Ret(c, <<>>)
      [] e.t = "Start" ->
            IF st = "Empty" /\ ~c.boss.started
            THEN Ret([c EXCEPT !.boss.started = TRUE],
                     <<Ev("Timing", "start", 0, "api"),
                       Ev("Rendezvous", "Start", 0, "")>>)
            ELSE BossError(c)
      [] e.t = "SetCode" ->
            IF st = "Empty" /\ c.boss.started
            THEN Ret([c EXCEPT !.boss.state = "Coding"],
                     <<Ev("Code", "SetCode", 0, e.b)>>)
            ELSE BossError(c)
      [] e.t = "AllocateCode" ->
            IF st = "Empty" /\ c.boss.started
            THEN Ret([c EXCEPT !.boss.state = "Coding"],
                     <<Ev("Code", "AllocateCode", e.p, "")>>)
            ELSE BossError(c)
      [] e.t = "InputCode" ->
            IF st = "Empty" /\ c.boss.started
            THEN Ret([c EXCEPT !.boss.state = "Coding"],
                     <<Ev("Code", "InputCode", 0, "")>>)
            ELSE BossError(c)
      [] e.t = "Send" ->
            IF st \in {"Lonely", "Happy"}
            THEN Ret(c, <<Ev("Send", "Send", 0, e.b)>>)
            ELSE BossError(c)      \* sending before a code is chosen, or while closing
      [] e.t = "Close" ->
            IF st = "Closing" THEN BossError(c)      \* closing twice
            ELSE IF st = "Happy" THEN BossCloseWith(c, "happy")
            ELSE BossCloseWith(c, "lonely")
      [] OTHER -> BossError(c)

Boss_process(c, e) ==
    LET st == c.boss.state IN
    CASE BossTerminal(c) -> Ret(c, <<>>)
      [] e.t = "Error" -> BossError(c)
      [] e.t = "Scared" ->
            IF st = "Closing" THEN Ret(c, <<>>)
            ELSE BossCloseWith(c, "scared")
      [] e.t = "RxWelcome" ->
            IF st = "Closing" THEN Ret(c, <<>>)
            ELSE IF e.b = "error"
            THEN Ret([c EXCEPT !.boss.state = "Closing", !.boss.mood = "unwelcome"],
                     <<Ev("API", "GotWelcome", 0, e.b),
                       Ev("Terminator", "Close", 0, "unwelcome")>>)
            ELSE Ret(c, <<Ev("API", "GotWelcome", 0, e.b)>>)
      [] e.t = "GotCode" ->
            IF st = "Coding"
            THEN Ret([c EXCEPT !.boss.state = "Lonely"],
                     <<Ev("API", "GotCode", 0, e.b)>>)
            ELSE IF st = "Closing" THEN Ret(c, <<>>) ELSE BossError(c)
      [] e.t = "GotKey" ->
            IF st = "Lonely" THEN Ret(c, <<Ev("API", "GotUnverifiedKey", 0, e.b)>>)
            ELSE IF st = "Closing" THEN Ret(c, <<>>) ELSE BossError(c)
      [] e.t = "GotVerifier" ->
            IF st = "Lonely" THEN Ret(c, <<Ev("API", "GotVerifier", 0, e.b)>>)
            ELSE IF st = "Closing" THEN Ret(c, <<>>) ELSE BossError(c)
      [] e.t = "Happy" ->
            IF st = "Lonely" THEN Ret([c EXCEPT !.boss.state = "Happy"], <<>>)
            ELSE IF st = "Closing" THEN Ret(c, <<>>) ELSE BossError(c)
      [] e.t = "GotVersions" ->
            IF st = "Happy" THEN Ret(c, <<Ev("API", "GotVersions", 0, e.b)>>)
            ELSE IF st = "Closing" THEN Ret(c, <<>>) ELSE BossError(c)
      [] e.t = "GotMessage" ->
            IF st = "Happy" THEN Ret(c, <<Ev("API", "GotMessage", e.p, e.b)>>)
            ELSE IF st = "Closing" THEN Ret(c, <<>>) ELSE BossError(c)
      [] e.t = "Closed" ->
            IF st = "Closing"
            THEN Ret([c EXCEPT !.boss.state = "Closed"],
                     <<Ev("API", "GotClosed", 0, c.boss.mood)>>)
            ELSE BossError(c)
      [] OTHER -> BossError(c)

\* ------------------------------------------------------------------ Code
\* Chooses between the allocator-driven and the user-set path; once the code
\* is known it emits GotCode, has the nameplate claimed and feeds Key.
CodeKnown(c, code) ==
    Ret([c EXCEPT !.code.state = "Known"],
        <<Ev("Nameplate", "SetNameplate", 0, "4"),
          Ev("Boss", "GotCode", 0, code),
          Ev("Key", "GotCode", 0, code)>>)

Code_process(c, e) ==
    LET st == c.code.state IN
    CASE e.t = "SetCode" /\ st = "Idle" -> CodeKnown(c, e.b)
      [] e.t = "AllocateCode" /\ st = "Idle" ->
            Ret([c EXCEPT !.code.state = "Allocating"],
                <<Ev("Allocator", "Allocate", e.p, "")>>)
      [] e.t = "InputCode" /\ st = "Idle" ->
            Ret([c EXCEPT !.code.state = "Inputting"],
                <<Ev("Input", "Start", 0, "")>>)
      [] e.t = "Allocated" /\ st = "Allocating" -> CodeKnown(c, MyCode)
      [] OTHER -> Ret(c, <<Ev("Boss", "Error", 0, "code")>>)

\* ------------------------------------------------------------- Allocator
\* On AllocateCode emits the allocate request (once a connection is up); on
\* the server's allocated{nameplate} forwards to Code.
Allocator_process(c, e) ==
    LET a == c.allocator IN
    CASE e.t = "Connected" ->
            IF a.state = "Allocating"
            THEN Ret([c EXCEPT !.allocator.connected = TRUE],
                     <<Tx("allocate", 0, "", "")>>)
            ELSE Ret([c EXCEPT !.allocator.connected = TRUE], <<>>)
      [] e.t = "Lost" -> Ret([c EXCEPT !.allocator.connected = FALSE], <<>>)
      [] e.t = "Allocate" /\ a.state = "Idle" ->
            Ret([c EXCEPT !.allocator.state = "Allocating"],
                IF a.connected THEN <<Tx("allocate", 0, "", "")>>
                ELSE <<>>)
      [] e.t = "RxAllocated" /\ a.state = "Allocating" ->
            Ret([c EXCEPT !.allocator.state = "Allocated"],
                <<Ev("Code", "Allocated", 0, e.b)>>)
      [] OTHER -> Ret(c, <<Ev("Boss", "Error", 0, "allocator")>>)

\* ---------------------------------------------------------------- Lister
\* Requests and caches the nameplate list for interactive completion.
Lister_process(c, e) ==
    LET l == c.lister IN
    CASE e.t = "Connected" ->
            IF l.state = "Wanting"
            THEN Ret([c EXCEPT !.lister.connected = TRUE],
                     <<Tx("list", 0, "", "")>>)
            ELSE Ret([c EXCEPT !.lister.connected = TRUE], <<>>)
      [] e.t = "Lost" -> Ret([c EXCEPT !.lister.connected = FALSE], <<>>)
      [] e.t = "Refresh" /\ l.state # "Wanting" ->
            Ret([c EXCEPT !.lister.state = "Wanting"],
                IF l.connected THEN <<Tx("list", 0, "", "")>>
                ELSE <<>>)
      [] e.t = "RxNameplates" /\ l.state = "Wanting" ->
            Ret([c EXCEPT !.lister.state = "Cached"],
                <<Ev("Input", "GotNameplates", 0, e.b)>>)
      [] OTHER -> Ret(c, <<Ev("Boss", "Error", 0, "lister")>>)

\* ----------------------------------------------------------------- Input
\* Interactive code entry: asks the Lister for the nameplate list and keeps
\* it for completion.  No nameplate is committed through do_api.
Input_process(c, e) ==
    LET st == c.input.state IN
    CASE e.t = "Start" /\ st = "Idle" ->
            Ret([c EXCEPT !.input.state = "WantNameplates"],
                <<Ev("Lister", "Refresh", 0, "")>>)
      [] e.t = "GotNameplates" /\ st # "Idle" ->
            Ret([c EXCEPT !.input.state = "HaveNameplates"], <<>>)
      [] OTHER -> Ret(c, <<Ev("Boss", "Error", 0, "input")>>)

\* ------------------------------------------------------------- Nameplate
\* S0_unclaimed -> S1_claiming -> S2_claimed -> S3_releasing -> S4_released.
\* The claim is re-issued on every new connection while claiming; a release
\* that cannot be sent or acknowledged because the connection is down is
\* completed locally.
Nameplate_process(c, e) ==
    LET n == c.nameplate IN
    CASE e.t = "Connected" ->
            CASE n.state = "S1_claiming" ->
                    Ret([c EXCEPT !.nameplate.connected = TRUE],
                        <<Tx("claim", 0, "4", "")>>)
              [] OTHER -> Ret([c EXCEPT !.nameplate.connected = TRUE], <<>>)
      [] e.t = "Lost" ->
            IF n.state = "S3_releasing"
            THEN Ret([c EXCEPT !.nameplate.connected = FALSE,
                               !.nameplate.state = "S4_released"],
                     <<Ev("Terminator", "NameplateDone", 0, "")>>)
            ELSE Ret([c EXCEPT !.nameplate.connected = FALSE], <<>>)
      [] e.t = "SetNameplate" /\ n.state = "S0_unclaimed" ->
            Ret([c EXCEPT !.nameplate.state = "S1_claiming"],
                IF n.connected THEN <<Tx("claim", 0, e.b, "")>>
                ELSE <<>>)
      [] e.t = "RxClaimed" /\ n.state = "S1_claiming" ->
            Ret([c EXCEPT !.nameplate.state = "S2_claimed"],
                <<Ev("Mailbox", "GotMailbox", 0, e.b)>>)
      [] e.t = "RxClaimed" /\ n.state \in {"S3_releasing", "S4_released"} ->
            Ret(c, <<>>)           \* the answer to a claim that was overtaken by the close
      [] e.t = "Close" ->
            CASE n.state = "S0_unclaimed" ->
                    Ret([c EXCEPT !.nameplate.state = "S4_released"],
                        <<Ev("Terminator", "NameplateDone", 0, "")>>)
              [] n.state \in {"S1_claiming", "S2_claimed"} ->
                    IF n.connected
                    THEN Ret([c EXCEPT !.nameplate.state = "S3_releasing"],
                             <<Tx("release", 0, "4", "")>>)
                    ELSE Ret([c EXCEPT !.nameplate.state = "S4_released"],
                             <<Ev("Terminator", "NameplateDone", 0, "")>>)
              [] OTHER -> Ret(c, <<Ev("Boss", "Error", 0, "nameplate")>>)
      [] e.t = "RxReleased" /\ n.state = "S3_releasing" ->
            Ret([c EXCEPT !.nameplate.state = "S4_released"],
                <<Ev("Terminator", "NameplateDone", 0, "")>>)
      [] OTHER -> Ret(c, <<Ev("Boss", "Error", 0, "nameplate")>>)

\* --------------------------------------------------------------- Mailbox
\* Opens the mailbox, keeps the outbound messages that cannot go on the wire
\* yet, reconciles inbound messages with the locally sent ones (by side and
\* phase), deduplicates, and forwards new peer phases to Order.
\* faulty variant: a Mailbox that keeps what it has sent in the pending list
\* and sends it again on the next connection (C10 must detect it)
MailboxSentKept(m) == m.pending

\* what is still pending once the pending messages have gone on the wire
MailboxSent(m) == <<>>

MailboxFlush(m) ==
    <<Tx("open", 0, "mbox", "")>> \o
    [i \in 1..Len(m.pending) |->
        Tx("add", m.pending[i].p, m.pending[i].b, m.pending[i].k)]

Mailbox_process(c, e) ==
    LET m == c.mailbox IN
    CASE e.t = "Connected" ->
            IF m.state = "S1_open"
            THEN Ret([c EXCEPT !.mailbox.connected = TRUE,
                               !.mailbox.pending = MailboxSent(m)], MailboxFlush(m))
            ELSE Ret([c EXCEPT !.mailbox.connected = TRUE], <<>>)
      [] e.t = "Lost" ->
            IF m.state = "S2_closing"
            THEN Ret([c EXCEPT !.mailbox.connected = FALSE,
                               !.mailbox.state = "S3_closed"],
                     <<Ev("Terminator", "MailboxDone", 0, "")>>)
            ELSE Ret([c EXCEPT !.mailbox.connected = FALSE], <<>>)
      [] e.t = "GotMailbox" ->
            CASE m.state = "S0_unopened" ->
                    IF m.connected
                    THEN Ret([c EXCEPT !.mailbox.state = "S1_open",
                                       !.mailbox.pending = MailboxSent(m)],
                             MailboxFlush(m))
                    ELSE Ret([c EXCEPT !.mailbox.state = "S1_open"], <<>>)
              [] m.state \in {"S2_closing", "S3_closed"} -> Ret(c, <<>>)
              [] OTHER -> Ret(c, <<Ev("Boss", "Error", 0, "mailbox")>>)
      [] e.t = "AddMessage" ->
            CASE m.state = "S1_open" /\ m.connected ->
                    Ret(c, <<Tx("add", e.p, e.b, e.k)>>)
              [] m.state \in {"S0_unopened", "S1_open"} ->
                    Ret([c EXCEPT !.mailbox.pending =
                            Append(@, [p |-> e.p, b |-> e.b, k |-> e.k])], <<>>)
              [] OTHER -> Ret(c, <<>>)          \* closing: nothing more is posted
      [] e.t = "RxMessage" ->
            CASE m.state = "S1_open" ->
                    IF e.s = MySide \/ e.p \in m.seen
                    THEN Ret(c, <<>>)
                    ELSE Ret([c EXCEPT !.mailbox.seen = @ \cup {e.p}],
                             <<[e EXCEPT !.m = "Order", !.t = "GotMessage"]>>)
              [] m.state \in {"S2_closing", "S3_closed"} -> Ret(c, <<>>)
              [] OTHER -> Ret(c, <<Ev("Boss", "Error", 0, "mailbox")>>)
      [] e.t = "Close" ->
            CASE m.state = "S0_unopened" ->
                    Ret([c EXCEPT !.mailbox.state = "S3_closed"],
                        <<Ev("Terminator", "MailboxDone", 0, "")>>)
              [] m.state = "S1_open" ->
                    IF m.connected
                    THEN Ret([c EXCEPT !.mailbox.state = "S2_closing"],
                             <<Tx("close", 0, e.b, "")>>)
                    ELSE Ret([c EXCEPT !.mailbox.state = "S3_closed"],
                             <<Ev("Terminator", "MailboxDone", 0, "")>>)
              [] OTHER -> Ret(c, <<Ev("Boss", "Error", 0, "mailbox")>>)
      [] e.t = "RxClosed" /\ m.state = "S2_closing" ->
            Ret([c EXCEPT !.mailbox.state = "S3_closed"],
                <<Ev("Terminator", "MailboxDone", 0, "")>>)
      [] OTHER -> Ret(c, <<Ev("Boss", "Error", 0, "mailbox")>>)

\* ----------------------------------------------------------------- Order
\* Delivers pake before any other phase and version before any numbered
\* phase; what arrives too early waits in the queue.
OrderToReceive(q) == [i \in 1..Len(q) |-> [q[i] EXCEPT !.m = "Receive"]]

OrderVersions(q) == SelectSeq(q, LAMBDA x : x.p = PhaseVersion)

OrderPayloads(q) == SelectSeq(q, LAMBDA x : x.p # PhaseVersion)

Order_process(c, e) ==
    LET o == c.order IN
    CASE e.t = "GotMessage" /\ e.p = PhasePake /\ ~o.got_pake ->
            IF OrderVersions(o.queue) # <<>>
            THEN Ret([c EXCEPT !.order.got_pake = TRUE,
                               !.order.got_version = TRUE,
                               !.order.queue = <<>>],
                     <<[e EXCEPT !.m = "Key", !.t = "GotPake"]>> \o
                     OrderToReceive(OrderVersions(o.queue)) \o
                     OrderToReceive(OrderPayloads(o.queue)))
            ELSE Ret([c EXCEPT !.order.got_pake = TRUE],
                     <<[e EXCEPT !.m = "Key", !.t = "GotPake"]>>)
      [] e.t = "GotMessage" /\ e.p = PhaseVersion /\ ~o.got_version ->
            IF o.got_pake
            THEN Ret([c EXCEPT !.order.got_version = TRUE, !.order.queue = <<>>],
                     <<[e EXCEPT !.m = "Receive"]>> \o OrderToReceive(o.queue))
            ELSE Ret([c EXCEPT !.order.queue = Append(@, e)], <<>>)
      [] e.t = "GotMessage" /\ e.p >= 0 ->
            IF o.got_version
            THEN Ret(c, <<[e EXCEPT !.m = "Receive"]>>)
            ELSE Ret([c EXCEPT !.order.queue = Append(@, e)], <<>>)
      [] OTHER -> Ret(c, <<Ev("Boss", "Error", 0, "order")>>)

\* ------------------------------------------------------------------- Key
\* Runs SPAKE2 over the code.  On the inbound pake it derives the key, emits
\* GotUnverifiedKey and GotVerifier (through the Boss), then has Send and
\* Receive begin the version phase.
Verifier(k) ==
    CASE k = "k-shared" -> "v-shared" [] k = "k-mine" -> "v-mine" [] OTHER -> "v-peer"

Key_process(c, e) ==
    LET st == c.key.state IN
    CASE e.t = "GotCode" /\ st = "S0_know_nothing" ->
            Ret([c EXCEPT !.key.state = "S1_know_code", !.key.code = e.b],
                <<[Ev("Mailbox", "AddMessage", PhasePake, e.b) EXCEPT !.s = MySide]>>)
      [] e.t = "GotPake" /\ st = "S1_know_code" ->
            LET k == DeriveKey(c.key.code, e.b) IN
            Ret([c EXCEPT !.key.state = "S2_know_key", !.key.key = k],
                <<Ev("Boss", "GotKey", 0, k),
                  Ev("Boss", "GotVerifier", 0, Verifier(k)),
                  [Ev("Send", "GotKey", 0, "") EXCEPT !.k = k],
                  [Ev("Receive", "GotKey", 0, "") EXCEPT !.k = k]>>)
      [] OTHER -> Ret(c, <<Ev("Boss", "Error", 0, "key")>>)

\* ------------------------------------------------------------------ Send
\* Encrypts the outbound payloads under the session key and labels them with
\* the phases 0, 1, ...; payloads submitted before the key is known wait.
SendAdd(phase, plaintext, k) ==
    [Ev("Mailbox", "AddMessage", phase, plaintext) EXCEPT !.k = k, !.s = MySide]

Send_process(c, e) ==
    LET s == c.send IN
    CASE e.t = "Send" ->
            IF s.key # ""
            THEN Ret([c EXCEPT !.send.next_phase = @ + 1],
                     <<SendAdd(s.next_phase, e.b, s.key)>>)
            ELSE Ret([c EXCEPT !.send.queue = Append(@, e.b)], <<>>)
      [] e.t = "GotKey" /\ s.key = "" ->
            Ret([c EXCEPT !.send.key = e.k, !.send.queue = <<>>,
                          !.send.next_phase = @ + Len(s.queue)],
                <<SendAdd(PhaseVersion, "versions", e.k)>> \o
                [i \in 1..Len(s.queue) |->
                    SendAdd(s.next_phase + i - 1, s.queue[i], e.k)])
      [] OTHER -> Ret(c, <<Ev("Boss", "Error", 0, "send")>>)

\* --------------------------------------------------------------- Receive
\* Decrypts the peer's phases.  The first successful decrypt makes the
\* session happy; version yields GotVersions, every later phase GotMessage.
\* A body that does not open under the key means a wrong code.
ReceiveDeliver(e) ==
    IF e.p = PhaseVersion THEN Ev("Boss", "GotVersions", 0, e.b)
    ELSE Ev("Boss", "GotMessage", e.p, e.b)

\* faulty variant: a Receive that takes every body as opened (C11 must
\* detect it)
ReceiveOpensAny(e, key) == TRUE

\* a body opens under the key it was encrypted with, and under no other
ReceiveOpens(e, key) == e.k = key

Receive_process(c, e) ==
    LET r == c.receive IN
    CASE e.t = "GotKey" /\ r.state = "S0_unknown_key" ->
            Ret([c EXCEPT !.receive.state = "S1_unverified_key",
                          !.receive.key = e.k], <<>>)
      [] e.t = "GotMessage" /\ r.state = "S1_unverified_key" ->
            IF ReceiveOpens(e, r.key)
            THEN Ret([c EXCEPT !.receive.state = "S2_verified_key"],
                     <<Ev("Boss", "Happy", 0, ""), ReceiveDeliver(e)>>)
            ELSE Ret([c EXCEPT !.receive.state = "S3_scared"],
                     <<Ev("Boss", "Scared", 0, "")>>)
      [] e.t = "GotMessage" /\ r.state = "S2_verified_key" ->
            IF ReceiveOpens(e, r.key)
            THEN Ret(c, <<ReceiveDeliver(e)>>)
            ELSE Ret([c EXCEPT !.receive.state = "S3_scared"],
                     <<Ev("Boss", "Scared", 0, "")>>)
      [] e.t = "GotMessage" /\ r.state = "S3_scared" -> Ret(c, <<>>)
      [] OTHER -> Ret(c, <<Ev("Boss", "Error", 0, "receive")>>)

\* ------------------------------------------------------------ Terminator
\* Has the Nameplate released and the Mailbox closed, then has Rendezvous
\* disconnect; when all three have reported, the Boss is told it is closed.
\* faulty variant: a Terminator that reports closed without waiting (C6 must
\* detect it)
TerminatorCloseHasty(c, e) ==
    Ret([c EXCEPT !.terminator.state = "S_stopped"],
        <<Ev("Nameplate", "Close", 0, ""),
          Ev("Mailbox", "Close", 0, e.b),
          Ev("Boss", "Closed", 0, "")>>)

\* Close: the Nameplate is told to release and the Mailbox to close with the
\* mood; the Terminator then waits for both
TerminatorClose(c, e) ==
    Ret([c EXCEPT !.terminator.state = "Snm"],
        <<Ev("Nameplate", "Close", 0, ""),
          Ev("Mailbox", "Close", 0, e.b)>>)

Terminator_process(c, e) ==
    LET st == c.terminator.state IN
    CASE e.t = "Close" /\ st = "Idle" -> TerminatorClose(c, e)
      [] e.t = "NameplateDone" /\ st = "Snm" ->
            Ret([c EXCEPT !.terminator.state = "Sm"], <<>>)
      [] e.t = "MailboxDone" /\ st = "Snm" ->
            Ret([c EXCEPT !.terminator.state = "Sn"], <<>>)
      [] (e.t = "NameplateDone" /\ st = "Sn") \/ (e.t = "MailboxDone" /\ st = "Sm") ->
            Ret([c EXCEPT !.terminator.state = "S_stopping"],
                <<Ev("Rendezvous", "Stop", 0, "")>>)
      [] e.t = "Stopped" /\ st = "S_stopping" ->
            Ret([c EXCEPT !.terminator.state = "S_stopped"],
                <<Ev("Boss", "Closed", 0, "")>>)
      [] OTHER -> Ret(c, <<Ev("Boss", "Error", 0, "terminator")>>)

\* ------------------------------------------------------------ Rendezvous
\* Manages the single WebSocket to the server:
\* Idle -> Connecting -> Connected -> Waiting (backoff) -> Stopping -> Stopped.
IOAction(t, h) == [Ev("IO", t, 0, "") EXCEPT !.h = h]

RendezvousNotify(t) ==
    <<Ev("Nameplate", t, 0, ""), Ev("Mailbox", t, 0, ""),
      Ev("Allocator", t, 0, ""), Ev("Lister", t, 0, "")>>

\* the frame of a Tx request as a WebSocketSendMessage action on handle h
RendezvousSend(h, e) == [e EXCEPT !.m = "IO", !.t = "WebSocketSendMessage", !.h = h]

\* the event an inbound server frame is turned into
RendezvousDispatch(e) ==
    CASE e.f = "welcome" -> <<Ev("Boss", "RxWelcome", 0, e.b)>>
      [] e.f = "allocated" -> <<Ev("Allocator", "RxAllocated", 0, e.b)>>
      [] e.f = "nameplates" -> <<Ev("Lister", "RxNameplates", 0, e.b)>>
      [] e.f = "claimed" -> <<Ev("Nameplate", "RxClaimed", 0, e.b)>>
      [] e.f = "released" -> <<Ev("Nameplate", "RxReleased", 0, "")>>
      [] e.f = "message" -> <<[e EXCEPT !.m = "Mailbox", !.t = "RxMessage", !.h = 0]>>
      [] e.f = "closed" -> <<Ev("Mailbox", "RxClosed", 0, "")>>
      [] e.f \in {"ack", "pong"} -> <<>>
      [] OTHER -> <<Ev("Boss", "Error", 0, "rendezvous")>>

\* faulty variant: a Rendezvous that opens the next connection as soon as
\* the last one is lost (C12 must detect it)
RendezvousLostHasty(c) ==
    LET r == c.rendezvous IN
    Ret([c EXCEPT !.rendezvous.state = "Connecting", !.rendezvous.wsh = @ + 1],
        <<IOAction("WebSocketOpen", r.wsh + 1)>> \o RendezvousNotify("Lost"))

\* the connection is lost while the session is open: back off for the
\* reconnect delay, then retry
RendezvousLost(c) ==
    LET r == c.rendezvous IN
    Ret([c EXCEPT !.rendezvous.state = "Waiting", !.rendezvous.timer = @ + 1],
        <<[IOAction("StartTimer", r.timer + 1) EXCEPT !.p = ReconnectDelay]>>
        \o RendezvousNotify("Lost"))

Rendezvous_process_io(c, e) ==
    LET r == c.rendezvous IN
    CASE r.state = "Stopped" -> Ret(c, <<>>)
      [] e.t = "WebSocketConnectionMade" ->
            CASE r.state = "Connecting" /\ e.h = r.wsh ->
                    Ret([c EXCEPT !.rendezvous.state = "Connected"],
                        <<Ev("Timing", "connected", 0, "ws"),
                          RendezvousSend(r.wsh, Tx("bind", 0, "appid", ""))>>
                        \o RendezvousNotify("Connected"))
              [] r.state = "Stopping" -> Ret(c, <<>>)
              [] OTHER -> Ret(c, <<Ev("Boss", "Error", 0, "rendezvous")>>)
      [] e.t = "WebSocketMessageReceived" ->
            CASE r.state = "Connected" /\ e.h = r.wsh -> Ret(c, RendezvousDispatch(e))
              [] r.state = "Stopping" -> Ret(c, <<>>)
              [] OTHER -> Ret(c, <<Ev("Boss", "Error", 0, "rendezvous")>>)
      [] e.t = "WebSocketConnectionLost" ->
            CASE r.state \in {"Connecting", "Connected"} /\ e.h = r.wsh ->
                    RendezvousLost(c)
              [] r.state = "Stopping" /\ e.h = r.wsh ->
                    Ret([c EXCEPT !.rendezvous.state = "Stopped"],
                        <<Ev("Terminator", "Stopped", 0, "")>>)
              [] OTHER -> Ret(c, <<Ev("Boss", "Error", 0, "rendezvous")>>)
      [] e.t = "TimerExpired" ->
            CASE r.state = "Waiting" /\ e.h = r.timer ->
                    Ret([c EXCEPT !.rendezvous.state = "Connecting",
                                  !.rendezvous.wsh = @ + 1],
                        <<IOAction("WebSocketOpen", r.wsh + 1)>>)
              [] r.state = "Stopping" -> Ret(c, <<>>)
              [] OTHER -> Ret(c, <<Ev("Boss", "Error", 0, "rendezvous")>>)
      [] OTHER -> Ret(c, <<Ev("Boss", "Error", 0, "rendezvous")>>)

Rendezvous_process(c, e) ==
    LET r == c.rendezvous IN
    CASE e.t = "Start" /\ r.state = "Idle" ->
            Ret([c EXCEPT !.rendezvous.state = "Connecting",
                          !.rendezvous.wsh = @ + 1],
                <<IOAction("WebSocketOpen", r.wsh + 1)>>)
      [] e.t = "Tx" /\ r.state = "Connected" -> Ret(c, <<RendezvousSend(r.wsh, e)>>)
      [] e.t = "Stop" ->
            CASE r.state = "Idle" ->
                    Ret([c EXCEPT !.rendezvous.state = "Stopped"],
                        <<Ev("Timing", "stopped", 0, "ws"),
                          Ev("Terminator", "Stopped", 0, "")>>)
              [] r.state \in {"Connecting", "Connected"} ->
                    Ret([c EXCEPT !.rendezvous.state = "Stopping"],
                        <<Ev("Timing", "stopping", 0, "ws"),
                          IOAction("WebSocketClose", r.wsh)>>)
              [] r.state = "Waiting" ->
                    Ret([c EXCEPT !.rendezvous.state = "Stopped"],
                        <<Ev("Timing", "stopped", 0, "ws"),
                          IOAction("CancelTimer", r.timer),
                          Ev("Terminator", "Stopped", 0, "")>>)
              [] OTHER -> Ret(c, <<Ev("Boss", "Error", 0, "rendezvous")>>)
      [] OTHER -> Ret(c, <<Ev("Boss", "Error", 0, "rendezvous")>>)

\* ================================================================ state
\* Wormhole::new: no one-shot value is cached yet
WormholeNew ==
    [code |-> <<>>, key |-> <<>>, welcome |-> <<>>, versions |-> <<>>,
     verifier |-> <<>>]

\* the one-shot getters of Wormhole, by the field that caches their value
Getters == {"code", "key", "welcome", "versions", "verifier"}

\* nothing has been returned by a getter, nothing taken from its channel
GotNew == [g \in Getters |-> [returns |-> <<>>, taken |-> 0]]

\* no file transfer is under way
TransitNone == [pc |-> "none"]

\* neither send nor receive has been called
NegoNone == [pc |-> "none"]

\* no record is being written or read
RecordNone == [pc |-> "none"]

\* no handshake is being exchanged
ShakeNone == [pc |-> "none"]

VARIABLES
    core,            \* WormholeCore: the states of the thirteen sub-machines
    timing,          \* WormholeCore.timing: the timing log
    event_queue,     \* _execute: the pending events of the call in progress
    action_queue,    \* _execute: the API actions the call will return
    pc,              \* CoreWrapper::run: "recv", "exec", "dispatch" or "panicked"
    actions,         \* CoreWrapper::run: the returned actions still to dispatch
    rx_by_core,      \* the channel every thread sends its ToCore events into
    timers,          \* CoreWrapper.timers
    websockets,      \* CoreWrapper.websockets: the handles that have a sender
    to_app,          \* the channels to the application, one per pathway
    ws,              \* per WebSocket handle: the state of its connector thread
    ws_ctl,          \* per WebSocket handle: the WSControl channel
    timer_threads,   \* the timer threads that are still asleep
    server,          \* the rendezvous server and the peer behind it
    app,             \* the application thread using the Wormhole object
    enq,             \* history: the events enqueued by the call in progress
    deq,             \* history: the events dequeued by the call in progress
    io_done,         \* history: the I/O actions the call handed to the glue
    emitted,         \* history: the session's API actions the core has returned
    delivered,       \* history: the same, once sent on to the application
    wire_phases,     \* history: handle and phase of the add frames handed to a socket
    requests,        \* history: what became of the release and the close request
    failed,          \* history: a machine has met an event it did not expect
    input,           \* history: the value the call in progress was made for
    in_flight,       \* history: the timers started, not cancelled and not expired
    fed,             \* history: per WebSocket handle, what was passed to do_io
    claims,          \* history: the handles a claim frame was handed to
    wormhole,        \* Wormhole: the one-shot values the front end has cached
    got,             \* history: per getter, the values returned and the recv calls
    transit,         \* send_file / receive_file: the two ends of a file transfer
    nego,            \* send / receive: the two ends of the negotiation by messages
    record,          \* a record on its way from encrypt_record to decrypt_record
    shake            \* tx_ / rx_handshake_exchange: the two ends of a handshake

vars == <<core, timing, event_queue, action_queue, pc, actions, rx_by_core,
          timers, websockets, to_app, ws, ws_ctl, timer_threads, server, app,
          enq, deq, io_done, emitted, delivered, wire_phases, requests, failed,
          input, in_flight, fed, claims, wormhole, got, transit, nego,
          record, shake>>

coreVars == <<core, timing, event_queue, action_queue>>
glueVars == <<timers, websockets, ws, ws_ctl, timer_threads>>
histCall == <<enq, deq, io_done>>
histWire == <<wire_phases, requests>>
histIo == <<input, in_flight, fed, claims>>
sessionVars == <<wormhole, got, transit, nego, record, shake>>
mainVars == <<coreVars, pc, actions, rx_by_core, glueVars, to_app, server, app,
              histCall, emitted, delivered, histWire, failed, histIo>>

MaxWS == MaxLost + 1       \* handles Rendezvous can ever hand out
Handles == 1..MaxWS

\* WormholeCore::new
CoreNew ==
    [allocator  |-> [state |-> "Idle", connected |-> FALSE],
     boss       |-> [state |-> "Empty", started |-> FALSE, mood |-> "lonely"],
     code       |-> [state |-> "Idle"],
     input      |-> [state |-> "Idle"],
     key        |-> [state |-> "S0_know_nothing", code |-> "", key |-> ""],
     lister     |-> [state |-> "Idle", connected |-> FALSE],
     mailbox    |-> [state |-> "S0_unopened", connected |-> FALSE,
                     pending |-> <<>>, seen |-> {}],
     nameplate  |-> [state |-> "S0_unclaimed", connected |-> FALSE],
     order      |-> [got_pake |-> FALSE, got_version |-> FALSE, queue |-> <<>>],
     receive    |-> [state |-> "S0_unknown_key", key |-> ""],
     rendezvous |-> [state |-> "Idle", wsh |-> 0, timer |-> 0],
     send       |-> [key |-> "", queue |-> <<>>, next_phase |-> 0],
     terminator |-> [state |-> "Idle"]]

\* a ToCore value: ToCore::API(event) keeps the event; the other variants
\* carry a handle (and a frame)
ToCoreAPI(t, b) == Ev("API", t, 0, b)
ToCoreIO(t, h) == [Ev("ToCore", t, 0, "") EXCEPT !.h = h]

\* no call is in progress
NoInput == Ev("none", "none", 0, "")

\* nothing of a handle has been passed to do_io yet
FedNew == [made |-> FALSE, lost |-> FALSE, phase |-> PhasePake - 1]

\* Wormhole::new: the channels are empty, the core thread is about to block
\* in recv, and Start is already in the channel.
InitCore ==
    /\ core = CoreNew
    /\ timing = <<>>
    /\ event_queue = <<>>
    /\ action_queue = <<>>
    /\ pc = "recv"
    /\ actions = <<>>
    /\ rx_by_core = <<ToCoreAPI("Start", "")>>
    /\ timers = {}
    /\ websockets = {}
    /\ to_app = [tx_welcome_to_app |-> <<>>, tx_messages_to_app |-> <<>>,
                 tx_key_to_transit |-> <<>>, tx_code_to_app |-> <<>>,
                 tx_verifier_to_app |-> <<>>, tx_versions_to_app |-> <<>>,
                 tx_close_to_app |-> <<>>]
    /\ ws = [h \in Handles |-> "none"]
    /\ ws_ctl = [h \in Handles |-> <<>>]
    /\ timer_threads = {}
    /\ server = [peer_code |-> "", opened |-> 0, sent |-> 0,
                 lost |-> 0, rogue |-> FALSE]
    /\ app = [pc |-> "idle", code_calls |-> 0, sends |-> 0, closes |-> 0,
              mood |-> ""]
    /\ enq = <<>>
    /\ deq = <<>>
    /\ io_done = <<>>
    /\ emitted = <<>>
    /\ delivered = <<>>
    /\ wire_phases = <<>>
    /\ requests = [release |-> "none", close |-> "none"]
    /\ failed = FALSE
    /\ input = NoInput
    /\ in_flight = {}
    /\ fed = [h \in Handles |-> FedNew]
    /\ claims = {}

Init ==
    /\ InitCore /\ wormhole = WormholeNew /\ got = GotNew
    /\ transit = TransitNone /\ nego = NegoNone /\ record = RecordNone
    /\ shake = ShakeNone

\* =============================================================== driver
\* WormholeCore::do_api: the Boss turns the API event into the first events.
do_api(c, event) == Boss_process_api(c, event)

\* WormholeCore::do_io: Rendezvous turns the I/O event into the first events.
do_io(c, event) == Rendezvous_process_io(c, event)

IsTiming(e) == e.m = "Timing"
IsAPI(e) == e.m = "API"
IsIO(e) == e.m = "IO"

\* _execute, `match e`: an API action and an I/O action go to no machine, a
\* Timing event is dropped, every other event goes to the machine it names.
Dispatch(c, e) ==
    CASE e.m = "API" -> Ret(c, <<>>)
      [] e.m = "IO" -> Ret(c, <<>>)
      [] e.m = "Allocator" -> Allocator_process(c, e)
      [] e.m = "Boss" -> Boss_process(c, e)
      [] e.m = "Code" -> Code_process(c, e)
      [] e.m = "Input" -> Input_process(c, e)
      [] e.m = "Key" -> Key_process(c, e)
      [] e.m = "Lister" -> Lister_process(c, e)
      [] e.m = "Mailbox" -> Mailbox_process(c, e)
      [] e.m = "Nameplate" -> Nameplate_process(c, e)
      [] e.m = "Order" -> Order_process(c, e)
      [] e.m = "Receive" -> Receive_process(c, e)
      [] e.m = "Rendezvous" -> Rendezvous_process(c, e)
      [] e.m = "Send" -> Send_process(c, e)
      [] e.m = "Terminator" -> Terminator_process(c, e)
      [] e.m = "Timing" -> Ret(c, <<>>)

\* _execute, `for a in actions.events`: a Timing event goes to the timing
\* log, every other event to the back of the queue.
\* faulty variant: depth-first, the new events go in front of the pending
\* ones (C2 must detect it)
PushFront(q, out) == SelectSeq(out, LAMBDA a : a.m # "Timing") \o q

PushBack(q, out) == q \o SelectSeq(out, LAMBDA a : ~IsTiming(a))

TimingAdd(log, out) == log \o SelectSeq(out, IsTiming)

\* _execute, `API(a) => action_queue.push(a)`
\* faulty variant: I/O actions are put in the returned list as well (C3 must
\* detect it)
ActionPushAll(aq, e) == IF IsAPI(e) \/ IsIO(e) THEN Append(aq, e) ELSE aq

ActionPush(aq, e) == IF IsAPI(e) THEN Append(aq, e) ELSE aq

\* _execute, `while let Some(e) = event_queue.pop_front()`: the loop ends
\* when the queue is empty
\* faulty variant: the loop ends with one event still pending (C1 must
\* detect it)
LoopDoneEarly(q) == Len(q) <= 1

LoopDone(q) == q = <<>>

\* ================================================================= glue
\* CoreWrapper::websocket_send / websocket_close index the map with the
\* handle and unwrap the send: a handle that is not in the map, or one whose
\* WSControl receiver has been dropped, panics the core thread.
IoPanics(a) ==
    /\ a.t \in {"WebSocketSendMessage", "WebSocketClose"}
    /\ (a.h \notin websockets \/ ws[a.h] = "gone")

WSData(a) == [a EXCEPT !.m = "WSControl", !.t = "Data"]
WSClose(h) == [Ev("WSControl", "Close", 0, "") EXCEPT !.h = h]

\* whether anything will still read the WSControl channel of handle h: what
\* is sent to a connection that is gone is never looked at
WsReads(h) == ws[h] \in {"connecting", "open"}

\* CoreWrapper::process_io_action
process_io_action(a) ==
    CASE a.t = "StartTimer" ->
            /\ timers' = timers \cup {a.h}
            /\ timer_threads' = timer_threads \cup {a.h}
            /\ UNCHANGED <<websockets, ws, ws_ctl>>
      [] a.t = "CancelTimer" ->
            /\ timers' = timers \ {a.h}
            /\ UNCHANGED <<websockets, ws, ws_ctl, timer_threads>>
      [] a.t = "WebSocketOpen" ->
            /\ websockets' = websockets \cup {a.h}
            /\ ws' = [ws EXCEPT ![a.h] = "connecting"]
            /\ ws_ctl' = [ws_ctl EXCEPT ![a.h] = <<>>]
            /\ UNCHANGED <<timers, timer_threads>>
      [] a.t = "WebSocketSendMessage" ->
            /\ ws_ctl' = IF a.h \in websockets /\ WsReads(a.h)
                         THEN [ws_ctl EXCEPT ![a.h] = Append(@, WSData(a))]
                         ELSE ws_ctl
            /\ UNCHANGED <<timers, websockets, ws, timer_threads>>
      [] a.t = "WebSocketClose" ->
            /\ ws_ctl' = IF a.h \in websockets /\ WsReads(a.h)
                         THEN [ws_ctl EXCEPT ![a.h] = Append(@, WSClose(a.h))]
                         ELSE ws_ctl
            /\ websockets' = websockets \ {a.h}
            /\ UNCHANGED <<timers, ws, timer_threads>>

\* faulty variant: the verifier is sent on the message channel (C5 must
\* detect it)
ChannelOfMixed(a) ==
    CASE a.t = "GotWelcome" -> "tx_welcome_to_app"
      [] a.t = "GotMessage" -> "tx_messages_to_app"
      [] a.t = "GotCode" -> "tx_code_to_app"
      [] a.t = "GotUnverifiedKey" -> "tx_key_to_transit"
      [] a.t = "GotVerifier" -> "tx_messages_to_app"
      [] a.t = "GotVersions" -> "tx_versions_to_app"
      [] a.t = "GotClosed" -> "tx_close_to_app"

\* the channel an API action is sent on
ChannelOf(a) ==
    CASE a.t = "GotWelcome" -> "tx_welcome_to_app"
      [] a.t = "GotMessage" -> "tx_messages_to_app"
      [] a.t = "GotCode" -> "tx_code_to_app"
      [] a.t = "GotUnverifiedKey" -> "tx_key_to_transit"
      [] a.t = "GotVerifier" -> "tx_verifier_to_app"
      [] a.t = "GotVersions" -> "tx_versions_to_app"
      [] a.t = "GotClosed" -> "tx_close_to_app"

\* CoreWrapper::process_api_action
process_api_action(ch, a) == [ch EXCEPT ![ChannelOf(a)] = Append(@, a.b)]

\* ============================================================== actions
\* Between one recv and the next the core thread reads and writes only what
\* it owns, and appends to channels other threads read from the front, so
\* each of its steps commutes with every step of another thread.  The other
\* WebSocket and timer threads are therefore scheduled while the core thread
\* is at recv: whatever they send during a call waits in rx_by_core just the
\* same.  The application thread sends at any time, so that an event can be
\* waiting in the channel while a call is in progress.  Once the core thread
\* has panicked its receiver is gone and every send to it fails.
CoreParked == pc = "recv"

CanSend == CoreParked /\ Len(rx_by_core) < MaxChan

AppCanSend == pc # "panicked" /\ Len(rx_by_core) < MaxChan

\* what becomes of the request q (release or close), as the engine sees it,
\* when x is taken from the channel: the server's answer acknowledges it, a
\* lost connection ends the wait for the answer
Answered(was, q, x) ==
    CASE was # "sent" -> was
      [] x.t = "WebSocketConnectionLost" -> "lost"
      [] x.t = "WebSocketMessageReceived" /\ x.f = "released" /\ q = "release" -> "acked"
      [] x.t = "WebSocketMessageReceived" /\ x.f = "closed" /\ q = "close" -> "acked"
      [] OTHER -> was

\* what becomes of the request q when the I/O action e is handed to the glue
Requested(was, q, e) ==
    IF e.t = "WebSocketSendMessage" /\ e.f = q THEN "sent" ELSE was

\* the Boss turns what it was handed into a failure of the session
Fails(c, r) == ~BossTerminal(c) /\ r = BossError(c)

\* faulty variant: an expiry is passed to the engine whether or not its
\* handle is still in the timer set (C29 must detect it)
CallsAlways(x) == TRUE

\* CoreWrapper::run, `match self.rx_by_core.recv()`: whether the value leads
\* to a call of the core (an expired timer that was cancelled does not)
CallsCore(x) == x.t = "TimerExpired" => x.h \in timers

\* the first events of the call made for x
FirstEvents(c, x) == IF x.m = "API" THEN do_api(c, x) ELSE do_io(c, x)

\* faulty variant: the next value is taken while actions of the previous
\* call are not yet dispatched (C4 must detect it)
RecvEarly == pc \in {"recv", "dispatch"}

\* CoreWrapper::run: recv is reached at the top of the loop only, after the
\* actions of the previous call have all been dispatched
RecvReady == pc = "recv"

\* what has been passed to do_io for each handle, once x is passed too
Fed(was, x) ==
    CASE x.t = "WebSocketConnectionMade" -> [was EXCEPT ![x.h].made = TRUE]
      [] x.t = "WebSocketConnectionLost" -> [was EXCEPT ![x.h].lost = TRUE]
      [] x.t = "WebSocketMessageReceived" /\ x.s = PeerSide ->
            [was EXCEPT ![x.h].phase = x.p]
      [] OTHER -> was

\* faulty variant: the value sent last is received first (C14 must detect it)
RecvNewest(q) == [x |-> q[Len(q)], rest |-> SubSeq(q, 1, Len(q) - 1)]

\* rx_by_core.recv(): the value sent first, and what stays in the channel
Recv(q) == [x |-> Head(q), rest |-> Tail(q)]

\* CoreWrapper::run: take the next value from the channel and enter
\* do_api / do_io; _execute starts with the events the call produced.
RunRecv ==
    /\ RecvReady
    /\ rx_by_core # <<>>
    /\ LET x == Recv(rx_by_core).x IN
       /\ rx_by_core' = Recv(rx_by_core).rest
       /\ requests' = [q \in {"release", "close"} |-> Answered(requests[q], q, x)]
       /\ input' = x
       /\ fed' = Fed(fed, x)
       /\ in_flight' = IF x.t = "TimerExpired" THEN in_flight \ {x.h} ELSE in_flight
       /\ IF CallsCore(x)
          THEN LET r == FirstEvents(core, x) IN
               /\ core' = r.c
               /\ event_queue' = r.out
               /\ enq' = r.out
               /\ pc' = "exec"
               /\ failed' = (failed \/ (x.m = "API" /\ Fails(core, r)))
          ELSE /\ core' = core
               /\ event_queue' = <<>>
               /\ enq' = <<>>
               /\ pc' = "dispatch"
               /\ failed' = failed
    /\ action_queue' = <<>>
    /\ actions' = <<>>
    /\ deq' = <<>>
    /\ io_done' = <<>>
    /\ UNCHANGED <<timing, glueVars, to_app, server, app, emitted, delivered,
                   wire_phases, claims, sessionVars>>

\* the timers in flight as the engine's actions have it, after the action e
InFlight(was, e) ==
    CASE e.t = "StartTimer" -> was \cup {e.h}
      [] e.t = "CancelTimer" -> was \ {e.h}
      [] OTHER -> was

\* _execute: one turn of the loop
ExecuteStep ==
    /\ pc = "exec"
    /\ event_queue # <<>>
    /\ ~LoopDone(event_queue)
    /\ LET e == Head(event_queue)
           r == Dispatch(core, e)
       IN
       /\ core' = r.c
       /\ event_queue' = PushBack(Tail(event_queue), r.out)
       /\ timing' = TimingAdd(timing, r.out)
       /\ action_queue' = ActionPush(action_queue, e)
       /\ enq' = enq \o SelectSeq(r.out, LAMBDA a : ~IsTiming(a))
       /\ deq' = Append(deq, e)
       /\ failed' = (failed \/ (e.m = "Boss" /\ Fails(core, r)))
       /\ IF IsIO(e)
          THEN /\ process_io_action(e)
               /\ io_done' = Append(io_done, e)
               /\ pc' = IF IoPanics(e) THEN "panicked" ELSE pc
               /\ wire_phases' = IF e.t = "WebSocketSendMessage" /\ e.f = "add"
                                 THEN Append(wire_phases, [h |-> e.h, p |-> e.p])
                                 ELSE wire_phases
               /\ requests' = [q \in {"release", "close"} |->
                                 Requested(requests[q], q, e)]
               /\ in_flight' = InFlight(in_flight, e)
               /\ claims' = IF e.t = "WebSocketSendMessage" /\ e.f = "claim"
                            THEN claims \cup {e.h} ELSE claims
          ELSE UNCHANGED <<glueVars, io_done, pc, wire_phases, requests,
                           in_flight, claims>>
    /\ UNCHANGED <<actions, rx_by_core, to_app, server, app, emitted, delivered,
                   input, fed, sessionVars>>

\* the API actions the histories keep: welcome and code are left out, they
\* come at any time relative to the others
Recorded(a) == a.t \in {"GotVerifier", "GotVersions", "GotMessage", "GotClosed"}

\* _execute returns action_queue; run keeps it as `actions`
ExecuteReturn ==
    /\ pc = "exec"
    /\ LoopDone(event_queue)
    /\ actions' = action_queue
    /\ emitted' = emitted \o SelectSeq(action_queue, Recorded)
    /\ pc' = "dispatch"
    /\ UNCHANGED <<core, timing, event_queue, action_queue, rx_by_core,
                   glueVars, to_app, server, app, histCall, delivered, histWire, failed, histIo, sessionVars>>

\* CoreWrapper::run, `for action in actions`: process_action on the next one
RunDispatch ==
    /\ pc = "dispatch"
    /\ actions # <<>>
    /\ LET a == Head(actions) IN
       /\ actions' = Tail(actions)
       /\ delivered' = IF Recorded(a) THEN Append(delivered, a) ELSE delivered
       /\ IF IsAPI(a)
          THEN /\ to_app' = process_api_action(to_app, a)
               /\ UNCHANGED glueVars
          ELSE /\ process_io_action(a)
               /\ UNCHANGED to_app
    /\ UNCHANGED <<coreVars, pc, rx_by_core, server, app, histCall, emitted,
                   histWire, failed, histIo, sessionVars>>

\* CoreWrapper::run: every action is dispatched, back to recv; nothing is
\* left of the call
RunLoop ==
    /\ pc = "dispatch"
    /\ actions = <<>>
    /\ pc' = "recv"
    /\ action_queue' = <<>>
    /\ enq' = <<>>
    /\ deq' = <<>>
    /\ io_done' = <<>>
    /\ input' = NoInput
    /\ UNCHANGED <<core, timing, event_queue, actions, rx_by_core, glueVars,
                   to_app, server, app, emitted, delivered, histWire, failed,
                   in_flight, fed, claims, sessionVars>>

\* ---------------------------------------------------- application thread
\* Wormhole::set_code
AppSetCode ==
    /\ app.pc = "idle" /\ app.code_calls = 0 /\ AppCanSend
    /\ rx_by_core' = Append(rx_by_core, ToCoreAPI("SetCode", MyCode))
    /\ app' = [app EXCEPT !.code_calls = 1]
    /\ UNCHANGED <<coreVars, pc, actions, glueVars, to_app, server, histCall,
                   emitted, delivered, histWire, failed, histIo, sessionVars>>

\* Wormhole::allocate_code
AppAllocateCode ==
    /\ app.pc = "idle" /\ app.code_calls = 0 /\ AppCanSend
    /\ rx_by_core' = Append(rx_by_core, [ToCoreAPI("AllocateCode", "") EXCEPT !.p = 2])
    /\ app' = [app EXCEPT !.code_calls = 1]
    /\ UNCHANGED <<coreVars, pc, actions, glueVars, to_app, server, histCall,
                   emitted, delivered, histWire, failed, histIo, sessionVars>>

\* Wormhole::send_message
AppSendMessage ==
    /\ app.pc \in {"idle", "closed"} /\ app.sends < MaxSends /\ AppCanSend
    /\ rx_by_core' = Append(rx_by_core, ToCoreAPI("Send", "msg"))
    /\ app' = [app EXCEPT !.sends = @ + 1]
    /\ UNCHANGED <<coreVars, pc, actions, glueVars, to_app, server, histCall,
                   emitted, delivered, histWire, failed, histIo, sessionVars>>

\* Wormhole::close, first half: send Close, then block on rx_close_from_core
AppClose ==
    /\ app.pc = "idle" /\ app.closes = 0 /\ AppCanSend
    /\ rx_by_core' = Append(rx_by_core, ToCoreAPI("Close", ""))
    /\ app' = [app EXCEPT !.pc = "closing", !.closes = 1]
    /\ UNCHANGED <<coreVars, pc, actions, glueVars, to_app, server, histCall,
                   emitted, delivered, histWire, failed, histIo, sessionVars>>

\* Wormhole::close, second half: recv returns the mood
AppCloseReturn ==
    /\ app.pc = "closing" /\ CoreParked
    /\ to_app.tx_close_to_app # <<>>
    /\ app' = [app EXCEPT !.pc = "closed", !.mood = Head(to_app.tx_close_to_app)]
    /\ to_app' = [to_app EXCEPT !.tx_close_to_app = Tail(@)]
    /\ UNCHANGED <<coreVars, pc, actions, rx_by_core, glueVars, server, histCall,
                   emitted, delivered, histWire, failed, histIo, sessionVars>>

\* --------------------------------------------------------- timer threads
\* the thread spawned by StartTimer wakes up and sends TimerExpired
TimerFire(h) ==
    /\ h \in timer_threads /\ CanSend
    /\ timer_threads' = timer_threads \ {h}
    /\ rx_by_core' = Append(rx_by_core, ToCoreIO("TimerExpired", h))
    /\ UNCHANGED <<coreVars, pc, actions, timers, websockets, ws, ws_ctl, to_app,
                   server, app, histCall, emitted, delivered, histWire, failed, histIo, sessionVars>>

\* ----------------------------------------------------- WebSocket threads
\* a frame received on handle h, as on_message hands it to the core
Inbound(h, f, p, b, s, k) ==
    [Ev("ToCore", "WebSocketMessageReceived", p, b)
        EXCEPT !.h = h, !.f = f, !.s = s, !.k = k]

\* ws_connector / on_open: the connection is made
WsOpen(h) ==
    /\ ws[h] = "connecting" /\ CanSend
    /\ ws' = [ws EXCEPT ![h] = "open"]
    /\ rx_by_core' = Append(rx_by_core, ToCoreIO("WebSocketConnectionMade", h))
    /\ UNCHANGED <<coreVars, pc, actions, timers, websockets, ws_ctl,
                   timer_threads, to_app, server, app, histCall, emitted,
                   delivered, histWire, failed, histIo, sessionVars>>

\* ws_connector: the connection is not made.  on_close is never called and
\* nothing is sent to the core.  Either the connector's unwrap ends the
\* thread, and the WSControl receiver is dropped with it ("gone"), or the
\* receiver stays with an outbound thread that has no connection ("dead").
WsConnectFail(h) ==
    /\ ws[h] = "connecting" /\ CoreParked
    /\ \E outcome \in {"dead", "gone"} : ws' = [ws EXCEPT ![h] = outcome]
    /\ ws_ctl' = [ws_ctl EXCEPT ![h] = <<>>]
    /\ UNCHANGED <<coreVars, pc, actions, rx_by_core, timers, websockets,
                   timer_threads, to_app, server, app, histCall, emitted,
                   delivered, histWire, failed, histIo, sessionVars>>

\* on_close after the server or the network ended the connection
WsLost(h) ==
    /\ ws[h] = "open" /\ CanSend
    /\ server.lost < MaxLost
    /\ ws' = [ws EXCEPT ![h] = "closed"]
    /\ ws_ctl' = [ws_ctl EXCEPT ![h] = <<>>]
    /\ rx_by_core' = Append(rx_by_core, ToCoreIO("WebSocketConnectionLost", h))
    /\ server' = [server EXCEPT !.lost = @ + 1,
                                !.opened = IF @ = h THEN 0 ELSE @]
    /\ UNCHANGED <<coreVars, pc, actions, timers, websockets, timer_threads,
                   to_app, app, histCall, emitted, delivered, histWire, failed, histIo, sessionVars>>

\* ------------------------------------------------------------ the server
Welcomes == {"ok", "error"}
RogueFrames == {"error"}

\* what the server answers to the frame d it received on handle h
ServerReply(h, d, w) ==
    CASE d.f = "bind" -> <<Inbound(h, "welcome", 0, w, "", "")>>
      [] d.f = "allocate" -> <<Inbound(h, "allocated", 0, "4", "", "")>>
      [] d.f = "list" -> <<Inbound(h, "nameplates", 0, "4", "", "")>>
      [] d.f = "claim" -> <<Inbound(h, "claimed", 0, "mbox", "", "")>>
      [] d.f = "release" -> <<Inbound(h, "released", 0, "", "", "")>>
      [] d.f = "add" -> <<Inbound(h, "message", d.p, d.b, d.s, d.k)>>
      [] d.f = "close" -> <<Inbound(h, "closed", 0, "", "", "")>>
      [] OTHER -> <<>>

\* the message of phase ph of a peer that uses the code pcode, as the server
\* relays it
PeerMessage(h, ph, pcode) ==
    CASE ph = PhasePake -> Inbound(h, "message", ph, pcode, PeerSide, "")
      [] ph = PhaseVersion ->
            Inbound(h, "message", ph, "versions", PeerSide, PeerKey(pcode))
      [] OTHER ->
            Inbound(h, "message", ph, "msg", PeerSide, PeerKey(pcode))

\* the codes the peer may be using: it settles on one with its first message
PeerCodes == IF server.peer_code = "" THEN Codes ELSE {server.peer_code}

\* ws_outbound takes the next WSControl of an open connection: Data goes to
\* the server, whose answer comes back through on_message; Close ends the
\* connection and on_close reports it.
WsOutbound(h) ==
    /\ ws[h] = "open" /\ ws_ctl[h] # <<>> /\ CanSend
    /\ LET d == Head(ws_ctl[h]) IN
       /\ ws_ctl' = [ws_ctl EXCEPT ![h] = IF d.t = "Close" THEN <<>> ELSE Tail(@)]
       /\ IF d.t = "Close"
          THEN /\ ws' = [ws EXCEPT ![h] = "closed"]
               /\ rx_by_core' =
                    Append(rx_by_core, ToCoreIO("WebSocketConnectionLost", h))
               /\ server' = [server EXCEPT !.opened = IF @ = h THEN 0 ELSE @]
          ELSE /\ ws' = ws
               /\ \E w \in Welcomes :
                    rx_by_core' = rx_by_core \o ServerReply(h, d, w)
               /\ server' = IF d.f = "open"
                            THEN [server EXCEPT !.opened = h, !.sent = 0]
                            ELSE server
    /\ UNCHANGED <<coreVars, pc, actions, timers, websockets, timer_threads,
                   to_app, app, histCall, emitted, delivered, histWire, failed, histIo, sessionVars>>

\* the server relays the next message the peer posted to the open mailbox
\* (after a new open it starts again with the first)
ServerPeerMsg(h) ==
    /\ ws[h] = "open" /\ server.opened = h /\ CanSend
    /\ server.sent < Len(PeerPhases)
    /\ \E pcode \in PeerCodes :
         /\ rx_by_core' =
              Append(rx_by_core, PeerMessage(h, PeerPhases[server.sent + 1], pcode))
         /\ server' = [server EXCEPT !.sent = @ + 1, !.peer_code = pcode]
    /\ UNCHANGED <<coreVars, pc, actions, glueVars, to_app, app, histCall,
                   emitted, delivered, histWire, failed, histIo, sessionVars>>

\* the server sends a frame that answers nothing the client asked (once in
\* a session)
ServerRogue(h, f) ==
    /\ ws[h] = "open" /\ CanSend
    /\ ~server.rogue
    /\ rx_by_core' = Append(rx_by_core, Inbound(h, f, 0, "", "", ""))
    /\ server' = [server EXCEPT !.rogue = TRUE]
    /\ UNCHANGED <<coreVars, pc, actions, glueVars, to_app, app, histCall,
                   emitted, delivered, histWire, failed, histIo, sessionVars>>

\* ================================================================= spec
CoreThread == RunRecv \/ ExecuteStep \/ ExecuteReturn \/ RunDispatch \/ RunLoop

AppThread ==
    AppSetCode \/ AppAllocateCode \/ AppSendMessage \/ AppClose \/ AppCloseReturn

Environment ==
    \/ \E h \in Handles : WsOpen(h) \/ WsConnectFail(h) \/ WsLost(h) \/ WsOutbound(h)
    \/ \E h \in Handles : TimerFire(h)
    \/ \E h \in Handles : ServerPeerMsg(h)
    \/ \E h \in Handles, f \in RogueFrames : ServerRogue(h, f)

Next == CoreThread \/ AppThread \/ Environment

Spec == Init /\ [][Next]_vars

TypeOK ==
    /\ pc \in {"recv", "exec", "dispatch", "panicked"}
    /\ core.boss.mood \in Moods
    /\ timers \subseteq Handles
    /\ websockets \subseteq Handles
    /\ Len(rx_by_core) <= MaxChan

\* =============================================================== claims
IsGotClosed(a) == a.t = "GotClosed"

GotClosedEmitted == SelectSeq(emitted, IsGotClosed) # <<>>

\* the positions of the API action t in the history s
Pos(s, t) == {i \in 1..Len(s) : s[i].t = t}

\* C1: a call of do_api or do_io returns only when the pending-event queue is
\* empty: every event the call produced, directly or through a transition,
\* has been dequeued and handled, and none is left for a later call.
C1_Quiescence ==
    pc \in {"dispatch", "recv"} => event_queue = <<>> /\ deq = enq

\* a call has returned after handling events that transitions produced
C1_Witness ==
    pc = "dispatch" /\ Len(deq) >= 4 /\ \E i \in 1..Len(deq) : deq[i].t = "Tx"

\* C2: within a call the events are handled in FIFO order: what a transition
\* returns goes behind everything already pending, in the order listed, so
\* the events handled so far followed by the pending ones are the events in
\* the order they were enqueued.
C2_Fifo == enq = deq \o event_queue

\* a transition's event (the claim request of the Nameplate) sits behind an
\* event that was pending before it was produced
C2_Witness ==
    /\ pc = "exec" /\ deq # <<>>
    /\ \E i \in 1..(Len(event_queue) - 1) :
         event_queue[i].t = "Connected" /\ event_queue[i + 1].t = "Tx"

C4_NoOverlap ==
    [][/\ (rx_by_core # <<>> /\ rx_by_core' = Tail(rx_by_core)) =>
            (pc = "recv" /\ event_queue = <<>> /\ actions = <<>> /\ enq = <<>>)
       /\ core' # core => pc \in {"recv", "exec"}]_vars

\* an event of another thread waits in the channel while a call is under way
C4_Witness ==
    /\ pc \in {"exec", "dispatch"} /\ rx_by_core # <<>>
    /\ (event_queue # <<>> \/ actions # <<>>)

\* the order the claim asks of a history of API actions
VerifierVersionsMessage(s) ==
    /\ \A i \in Pos(s, "GotVersions") : \E j \in Pos(s, "GotVerifier") : j < i
    /\ \A i \in Pos(s, "GotMessage") : \E j \in Pos(s, "GotVersions") : j < i
    /\ \A i \in Pos(s, "GotVerifier") : \A j \in Pos(s, "GotVersions") : i < j
    /\ \A i \in Pos(s, "GotVersions") : \A j \in Pos(s, "GotMessage") : i < j

\* C5: GotVerifier is emitted before GotVersions and GotVersions before any
\* GotMessage, and nothing is in the application's message channel before
\* the verifier and the versions have been sent to theirs.
C5_Order ==
    /\ VerifierVersionsMessage(emitted)
    /\ VerifierVersionsMessage(delivered)
    /\ to_app.tx_messages_to_app # <<>> =>
         to_app.tx_verifier_to_app # <<>> /\ to_app.tx_versions_to_app # <<>>

\* a peer message has reached the application's message channel
C5_Witness ==
    Pos(delivered, "GotMessage") # {} /\ to_app.tx_messages_to_app # <<>>

\* C6: GotClosed is emitted once in a session, never twice, and at that time
\* no release or close request is waiting for its answer: each was
\* acknowledged, or the connection was seen lost, or it was never sent.
C6_ClosedOnce ==
    /\ Len(SelectSeq(emitted, IsGotClosed)) <= 1
    /\ Len(SelectSeq(delivered, IsGotClosed)) <= 1
    /\ (core.boss.state = "Closed" /\ pc \in {"dispatch", "recv"}) =>
         Len(SelectSeq(emitted, IsGotClosed)) = 1
    /\ SelectSeq(action_queue, IsGotClosed) # <<>> =>
         requests.release # "sent" /\ requests.close # "sent"

\* GotClosed is returned after the server acknowledged release and close
C6_Witness ==
    /\ pc = "dispatch" /\ SelectSeq(action_queue, IsGotClosed) # <<>>
    /\ requests.release = "acked" /\ requests.close = "acked"

\* C7: after the application has submitted Close the session does not come
\* to rest before GotClosed is out and close() has returned, and close()
\* returns the mood of that GotClosed.
C7_CloseReturns ==
    /\ app.pc = "closing" => ENABLED Next
    /\ app.pc = "closed" =>
         \E i \in Pos(emitted, "GotClosed") : emitted[i].b = app.mood

\* C8: once GotClosed is emitted the core is terminal: a later event reaches
\* no machine (the first events of its call are none, the machines stay as
\* they are) and produces no API and no I/O action.
C8_Terminal ==
    [][GotClosedEmitted =>
          /\ core' = core /\ event_queue' = <<>>
          /\ emitted' = emitted /\ io_done' \in {io_done, <<>>}
          /\ timers' = timers /\ websockets' = websockets
          /\ wire_phases' = wire_phases]_vars

\* an event submitted after GotClosed has entered do_api / do_io
C8_Witness == GotClosedEmitted /\ pc = "exec"

WrongCode == server.peer_code \notin {"", MyCode}

\* the action t with the mood b is all a history of API actions has of t
OnlyMood(s, b) == \A i \in Pos(s, "GotClosed") : s[i].b = b

Done(t) == {i \in 1..Len(io_done) : io_done[i].t = t}

SessionOpen == core.boss.state \notin {"Closing", "Closed"}

\* C12: a WebSocket lost while the session is open makes the engine start a
\* timer of the constant reconnect delay (5 s), which the glue then tracks;
\* the expiry of that timer makes it emit WebSocketOpen for a new handle; on
\* the new connection a claim that is still pending is issued again; and a
\* WebSocketOpen comes only from Start (the first) or from an expired timer.
C12_Reconnect ==
    /\ \A i \in Done("StartTimer") :
         /\ io_done[i].p = ReconnectDelay /\ ReconnectDelay = 5
         /\ input.t = "WebSocketConnectionLost"
    /\ \A i \in Done("WebSocketOpen") :
         \/ input.t = "Start" /\ io_done[i].h = 1
         \/ input.t = "TimerExpired" /\ io_done[i].h > 1
    /\ (pc = "dispatch" /\ input.t = "WebSocketConnectionLost" /\ SessionOpen) =>
         /\ core.rendezvous.state = "Waiting"
         /\ \E i \in Done("StartTimer") : io_done[i].h = core.rendezvous.timer
         /\ core.rendezvous.timer \in timers \cap timer_threads
    /\ (pc = "dispatch" /\ input.t = "TimerExpired" /\ SessionOpen) =>
         /\ core.rendezvous.state = "Connecting"
         /\ \E i \in Done("WebSocketOpen") : io_done[i].h = core.rendezvous.wsh
         /\ ws[core.rendezvous.wsh] = "connecting"
    /\ (pc = "dispatch" /\ input.t = "WebSocketConnectionMade"
          /\ core.nameplate.state = "S1_claiming") =>
         \E i \in Done("WebSocketSendMessage") :
             io_done[i].f = "claim" /\ io_done[i].h = input.h

\* the claim was issued again on a second connection and the session has
\* completed happy
C12_Witness ==
    /\ claims = {1, 2}
    /\ \E i \in Pos(emitted, "GotClosed") : emitted[i].b = "happy"

\* C13: between engine calls the timer handles the glue tracks are the
\* timers in flight for the engine: started by StartTimer, not cancelled by
\* CancelTimer and not yet expired.
C13_TimersTracked == pc = "recv" => timers = in_flight

\* what the glue does keep: every timer in flight is tracked, and a handle
\* it tracks beyond those is one whose expiry was passed to the engine
C13_TimersKept ==
    pc = "recv" =>
        /\ in_flight \subseteq timers
        /\ \A h \in timers \ in_flight : h \notin timer_threads

\* ============================================== the one-shot getters
\* The front end alone: the core thread is stood for by what it sends on the
\* channels to the application, in any order and more than once (a welcome
\* comes with every connection), and the application makes its other calls
\* in between.
OneShotActions ==
    {"GotWelcome", "GotCode", "GotUnverifiedKey", "GotVerifier", "GotVersions",
     "GotMessage", "GotClosed"}
OneShotValues == {"v1", "v2"}

\* the channel a getter receives from: the Receiver paired with the Sender of
\* its pathway
RxOf(g) ==
    CASE g = "code" -> "tx_code_to_app"
      [] g = "key" -> "tx_key_to_transit"
      [] g = "welcome" -> "tx_welcome_to_app"
      [] g = "versions" -> "tx_versions_to_app"
      [] g = "verifier" -> "tx_verifier_to_app"

\* faulty variant: the value received is returned but not kept (C16 must
\* detect it)
CacheNothing(w, g, v) == w

\* get_code and the like, `self.code = Some(code.clone())`
Cache(w, g, v) == [w EXCEPT ![g] = <<v>>]

\* the core thread sends the value of one more API action to the application
CoreSends(t, v) ==
    /\ Len(delivered) < MaxApiActions
    /\ LET a == Ev("API", t, 0, v) IN
       /\ to_app' = process_api_action(to_app, a)
       /\ delivered' = Append(delivered, a)
    /\ UNCHANGED <<coreVars, pc, actions, rx_by_core, glueVars, server, app,
                   histCall, emitted, histWire, failed, histIo, sessionVars>>

GetsMade ==
    Len(got.code.returns) + Len(got.key.returns) + Len(got.welcome.returns)
        + Len(got.versions.returns) + Len(got.verifier.returns)

\* get_code, get_key, get_verifier, get_versions, get_welcome: the cached
\* value if there is one, else the next value of the channel (the call blocks
\* while the channel is empty), which is cached and returned
Get(g) ==
    /\ app.pc \in {"idle", "closed"}
    /\ GetsMade < MaxGets
    /\ IF wormhole[g] # <<>>
       THEN /\ got' = [got EXCEPT ![g].returns = Append(@, wormhole[g][1])]
            /\ UNCHANGED <<wormhole, to_app>>
       ELSE /\ to_app[RxOf(g)] # <<>>
            /\ LET v == Head(to_app[RxOf(g)]) IN
               /\ wormhole' = Cache(wormhole, g, v)
               /\ got' = [got EXCEPT ![g].returns = Append(@, v),
                                     ![g].taken = @ + 1]
            /\ to_app' = [to_app EXCEPT ![RxOf(g)] = Tail(@)]
    /\ UNCHANGED <<coreVars, pc, actions, rx_by_core, glueVars, server, app,
                   histCall, emitted, delivered, histWire, failed, histIo, transit,
                   nego, record, shake>>

NextGetters ==
    \/ \E t \in OneShotActions, v \in OneShotValues : CoreSends(t, v)
    \/ \E g \in Getters : Get(g)
    \/ AppThread

SpecGetters == Init /\ [][NextGetters]_vars

\* C16: once a one-shot getter has returned v, every later call returns v,
\* from the cache (it cannot block) and without taking another value from
\* the channel of the engine, whatever else was called or sent in between.
C16_Idempotent ==
    \A g \in Getters :
        /\ got[g].taken <= 1
        /\ got[g].returns # <<>> =>
              /\ got[g].taken = 1
              /\ wormhole[g] = <<got[g].returns[1]>>
              /\ \A i \in 1..Len(got[g].returns) :
                    got[g].returns[i] = got[g].returns[1]

\* get_code has returned three times, with a send_message in between, while
\* a second, different value sent by the engine stays in its channel
C16_Witness ==
    /\ Len(got.code.returns) = 3
    /\ app.sends > 0
    /\ to_app.tx_code_to_app # <<>>
    /\ to_app.tx_code_to_app[1] # got.code.returns[1]

\* the values a WebSocket thread sends for its handle
IsWs(x) ==
    x.t \in {"WebSocketConnectionMade", "WebSocketMessageReceived",
             "WebSocketConnectionLost"}

\* x may be passed to do_io after what was passed for its handle so far
InOrder(x, was) ==
    CASE x.t = "WebSocketConnectionMade" ->
            ~was[x.h].made /\ ~was[x.h].lost /\ was[x.h].phase = FedNew.phase
      [] x.t = "WebSocketMessageReceived" ->
            /\ was[x.h].made /\ ~was[x.h].lost
            /\ x.s = PeerSide => x.p > was[x.h].phase
      [] x.t = "WebSocketConnectionLost" -> was[x.h].made /\ ~was[x.h].lost
      [] OTHER -> TRUE

\* C14: the values of all threads wait in one channel and are passed to the
\* engine in the order they arrived: for each handle, ConnectionMade comes
\* first, the messages follow in the order the socket received them (the
\* peer's phases in the order the server relayed them), and ConnectionLost
\* comes after all of them, both in the channel and in the calls of do_io.
C14_ArrivalOrder ==
    /\ [](\A i, j \in 1..Len(rx_by_core) :
            (i < j /\ IsWs(rx_by_core[i]) /\ IsWs(rx_by_core[j])
               /\ rx_by_core[i].h = rx_by_core[j].h) =>
              /\ rx_by_core[i].t # "WebSocketConnectionLost"
              /\ rx_by_core[j].t # "WebSocketConnectionMade"
              /\ (rx_by_core[i].s = PeerSide /\ rx_by_core[j].s = PeerSide) =>
                   rx_by_core[i].p < rx_by_core[j].p)
    /\ [][(pc = "recv" /\ pc' # "recv") => InOrder(input', fed)]_vars

\* two values of one connection waited in the channel together: the peer's
\* message that arrived first has been passed to do_io, after the
\* connection's ConnectionMade, and the loss of the connection still waits
C14_Witness ==
    /\ pc = "exec" /\ input.t = "WebSocketMessageReceived" /\ input.s = PeerSide
    /\ fed[input.h].made /\ fed[input.h].phase = input.p
    /\ Len(rx_by_core) = 1
    /\ rx_by_core[1].t = "WebSocketConnectionLost" /\ rx_by_core[1].h = input.h

\* WebSocketConnectionLost(h) has been sent to the engine: it waits in the
\* channel or has been passed to do_io
LostSent(h) ==
    \/ fed[h].lost
    \/ \E i \in 1..Len(rx_by_core) :
         rx_by_core[i].t = "WebSocketConnectionLost" /\ rx_by_core[i].h = h

\* C15: every transport failure of the WebSocket opened for handle h, a
\* failure to connect included, has WebSocketConnectionLost(h) sent to the
\* engine.
C15_LostReported ==
    \A h \in Handles : ws[h] \in {"dead", "gone", "closed"} => LostSent(h)

\* what the glue does report: the end of a connection that was made
C15_LostAfterMade ==
    \A h \in Handles : (ws[h] = "closed" /\ pc # "panicked") => LostSent(h)

\* ======================================================== file transfer
\* send_file and receive_file from the point where the transit messages, the
\* offer and the file ack have been exchanged: each end goes through the
\* hosts of its peer's hints, and the end whose handshake succeeds streams
\* the records.  The network between the two ends is a pair of byte streams,
\* here the frames in flight in each direction.
Bytes == {0, 1}
Files == UNION {[1..n -> Bytes] : n \in 0..MaxFile}

\* a hint of a transit message: Hints::DirectTcpV1(host) or
\* Hints::RelayV1(hints)
DirectTcpV1(host) == [type |-> "direct-tcp-v1", host |-> host, hints |-> <<>>]
RelayV1(hosts) == [type |-> "relay-v1", host |-> "", hints |-> hosts]

HintSet ==
    {DirectTcpV1("d1"), DirectTcpV1("d2"), RelayV1(<<"r1">>),
     RelayV1(<<"r2", "r3">>)}

\* the hints_v1 a transit message can carry
HintLists == UNION {[1..n -> HintSet] : n \in 0..MaxHints}

\* the hint lists the file transfers start from
TransitHints == {<<>>, <<RelayV1(<<"r1">>), DirectTcpV1("d1")>>}

IsDirect(hint) == hint.type = "direct-tcp-v1"
IsRelay(hint) == hint.type = "relay-v1"
DirectHost(hint) == <<"Direct", hint.host>>
RelayHost(host) == <<"Relay", host>>

\* the hosts of a relay hint, each with HostType::Relay
RelayHosts(hint) == [i \in 1..Len(hint.hints) |-> RelayHost(hint.hints[i])]

\* get_direct_relay_hosts: the direct hints in the order of the message, and
\* the hosts of the first relay hint
get_direct_relay_hosts(hints_v1) ==
    LET direct_hints == SelectSeq(hints_v1, IsDirect)
        relay_hosts_list == SelectSeq(hints_v1, IsRelay)
    IN
    [direct_hosts |-> [i \in 1..Len(direct_hints) |-> DirectHost(direct_hints[i])],
     relay_hosts |-> IF relay_hosts_list = <<>> THEN <<>>
                     ELSE RelayHosts(relay_hosts_list[1])]

RECURSIVE HostsMessageOrder(_)
\* faulty variant: the hosts in the order of the hints in the message (C20
\* must detect it)
HostsMessageOrder(hints_v1) ==
    IF hints_v1 = <<>> THEN <<>>
    ELSE (IF IsDirect(hints_v1[1]) THEN <<DirectHost(hints_v1[1])>>
          ELSE RelayHosts(hints_v1[1]))
         \o HostsMessageOrder(Tail(hints_v1))

\* send_file / receive_file: hosts.append(direct_hosts),
\* hosts.append(relay_hosts)
Hosts(hints_v1) ==
    get_direct_relay_hosts(hints_v1).direct_hosts
        \o get_direct_relay_hosts(hints_v1).relay_hosts

\* Sha256 as a function without collisions: the digest stands for the bytes
\* that went into the hasher; hex::encode of a digest
Sha256(bytes) == [sha256 |-> bytes]
HexEncode(digest) == [hex |-> digest]

\* make_record_keys: the two record keys derived from the transit key
skey == "transit_record_sender_key"
rkey == "transit_record_receiver_key"

\* encrypt_record and send_record: the frame on the wire, a length, the nonce
\* and the secretbox of the plaintext under the key.  intact says that no bit
\* was changed on the way, part is where the changed bit is.
encrypt_record(plaintext, nonce, key) ==
    [key |-> key, nonce |-> nonce, pt |-> plaintext, intact |-> TRUE, part |-> ""]

\* what a secretbox without authentication would give for changed ciphertext
Garbled(plaintext) ==
    IF plaintext = <<>> THEN plaintext
    ELSE [plaintext EXCEPT ![1] = 1 - @]

\* faulty variant: a record is opened without checking its authenticator
\* (C19 must detect it)
DecryptUnchecked(enc_packet, key) ==
    [ok |-> TRUE,
     pt |-> IF enc_packet.intact THEN enc_packet.pt ELSE Garbled(enc_packet.pt)]

\* decrypt_record: secretbox::open gives the plaintext of an unchanged frame
\* sealed under the same key, and fails for anything else
decrypt_record(enc_packet, key) ==
    IF enc_packet.intact /\ enc_packet.key = key
    THEN [ok |-> TRUE, pt |-> enc_packet.pt]
    ELSE [ok |-> FALSE, pt |-> <<>>]

\* receive_record: the frame is read whole; with a changed length the read
\* takes other bytes for the frame (the packet read does not open), waits for
\* bytes that do not come, or gets a packet shorter than a nonce, on which
\* split_at panics
ReadOutcomes(frame) ==
    IF frame.intact \/ frame.part # "length" THEN {"read"}
    ELSE {"read", "io error", "panicked"}

\* faulty variant: the ack says that the transfer failed (C33 must detect it)
TransitAckError(sha256sum) == [ack |-> "error", sha256 |-> sha256sum]

\* make_transit_ack_msg
TransitAck(sha256sum) == [ack |-> "ok", sha256 |-> sha256sum]

\* faulty variant: the file holds the last record only (C17 must detect it)
WriteOver(f, plaintext) == plaintext

\* receive_records: f.write_all(&plaintext)
WriteAll(f, plaintext) == f \o plaintext

\* faulty variant: any ack is taken for a match (C18 must detect it)
AckAccepted(transit_ack_msg, checksum) == TRUE

\* tcp_file_send: transit_ack_msg.sha256 == hex::encode(checksum)
AckMatches(transit_ack_msg, checksum) ==
    transit_ack_msg.sha256 = HexEncode(checksum)

\* the two ends at the start of their loops over the hosts
TransitNew(file, filesize, peer_hints, ttype) ==
    [snd |-> [pc |-> "hosts", hints |-> peer_hints, hosts |-> Hosts(peer_hints),
              tried |-> <<>>, last |-> "", shook |-> FALSE, streams |-> 0,
              sent |-> <<>>,
              file |-> file, pos |-> 0, nonce |-> 0,
              hasher |-> <<>>, ack |-> <<>>, result |-> ""],
     rcv |-> [pc |-> "hosts", hints |-> ttype, hosts |-> Hosts(ttype),
              tried |-> <<>>, last |-> "", shook |-> FALSE, streams |-> 0,
              sent |-> <<>>,
              filesize |-> filesize, remaining_size |-> filesize, written |-> <<>>,
              hasher |-> <<>>, hit |-> FALSE, acked |-> FALSE, result |-> ""],
     s2r |-> <<>>, r2s |-> <<>>, flips |-> 0]

InitTransit ==
    /\ InitCore /\ wormhole = WormholeNew /\ got = GotNew
    /\ nego = NegoNone /\ record = RecordNone /\ shake = ShakeNone
    /\ transit \in {TransitNew(file, filesize, hs, hr) :
                      file \in Files, filesize \in 0..MaxFile,
                      hs \in TransitHints, hr \in TransitHints}

InitHints ==
    /\ InitCore /\ wormhole = WormholeNew /\ got = GotNew
    /\ nego = NegoNone /\ record = RecordNone /\ shake = ShakeNone
    /\ transit \in {TransitNew(<<>>, 0, hs, hr) : hs \in HintLists, hr \in HintLists}

Ends == {"snd", "rcv"}

\* faulty variant: a stream that fails is given up and the next host is
\* attempted (C23 must detect it)
RetryNext(e, result) ==
    IF result = "Ok" THEN [e EXCEPT !.pc = "done", !.result = result]
    ELSE [e EXCEPT !.pc = "hosts"]

\* `return tcp_file_send(..)` / `return tcp_file_receive(..)`: what the
\* record stream returns is what the call returns
Returned(e, result) == [e EXCEPT !.pc = "done", !.result = result]
AttemptOutcomes ==
    {"resolve error", "no address", "connect failed", "handshake failed",
     "handshake panicked", "connected"}

\* one turn of `for host in hosts`: the host is resolved, connect_or_accept
\* is called and the handshake is exchanged.  A host that does not resolve
\* ends the call with the error (`?`), one that resolves to no address
\* panics (unwrap); a connection or handshake that fails goes on to the next
\* host; rx_handshake_exchange unwraps its send and its read.
Attempt(end, outcome) ==
    LET e == transit[end] IN
    /\ e.pc = "hosts" /\ e.hosts # <<>>
    /\ outcome = "handshake panicked" => end = "rcv"
    /\ transit' =
         [transit EXCEPT ![end] =
            CASE outcome = "resolve error" ->
                    [e EXCEPT !.pc = "done", !.result = "resolve error",
                              !.last = outcome]
              [] outcome = "no address" ->
                    [e EXCEPT !.pc = "panicked", !.last = outcome]
              [] outcome \in {"connect failed", "handshake failed"} ->
                    [e EXCEPT !.hosts = Tail(@), !.tried = Append(@, Head(e.hosts)),
                              !.last = outcome]
              [] outcome = "handshake panicked" ->
                    [e EXCEPT !.pc = "panicked", !.tried = Append(@, Head(e.hosts)),
                              !.last = outcome]
              [] outcome = "connected" ->
                    [e EXCEPT !.pc = "records", !.hosts = Tail(@),
                              !.tried = Append(@, Head(e.hosts)),
                              !.last = outcome, !.shook = TRUE,
                              !.streams = @ + 1]]
    /\ UNCHANGED <<mainVars, wormhole, got, nego, record, shake>>

\* the loop is over and no handshake succeeded: Ok(())
NoHost(end) ==
    /\ transit[end].pc = "hosts" /\ transit[end].hosts = <<>>
    /\ transit' = [transit EXCEPT ![end].pc = "done", ![end].result = "Ok"]
    /\ UNCHANGED <<mainVars, wormhole, got, nego, record, shake>>

\* faulty variant: the nonce stays what it is (C26 must detect it)
NonceKept(nonce) == nonce

\* Nonce::increment_le_inplace: the nonce as a counter, one more
increment_le_inplace(nonce) == nonce + 1

\* send_records, one turn of the loop: read a block, encrypt it under the
\* nonce, send the record, increment the nonce, hash what was read, and stop
\* after a block that was not full
SendRecord ==
    LET e == transit.snd
        n == IF Len(e.file) - e.pos < BlockSize THEN Len(e.file) - e.pos
             ELSE BlockSize
        plaintext == SubSeq(e.file, e.pos + 1, e.pos + n)
    IN
    /\ e.pc = "records"
    /\ transit' =
         [transit EXCEPT
            !.s2r = Append(@, encrypt_record(plaintext, e.nonce, skey)),
            !.snd = [e EXCEPT !.pos = @ + n, !.nonce = increment_le_inplace(@),
                              !.sent = Append(@, encrypt_record(plaintext, e.nonce, skey)),
                              !.hasher = @ \o plaintext,
                              !.pc = IF n < BlockSize THEN "ack" ELSE "records"]]
    /\ UNCHANGED <<mainVars, wormhole, got, nego, record, shake>>

\* the sender's write fails, or its read of the ack ends without a frame
\* (the peer is gone, or five seconds have passed)
SendFails ==
    /\ \/ transit.snd.pc = "records"
       \/ transit.snd.pc = "ack" /\ transit.r2s = <<>>
    /\ transit' = [transit EXCEPT !.snd = Returned(@, "io error")]
    /\ UNCHANGED <<mainVars, wormhole, got, nego, record, shake>>

\* tcp_file_send after send_records: receive the ack record, decrypt it with
\* rkey and compare its sha256 with the checksum of what was sent
SendAck ==
    LET e == transit.snd
        frame == Head(transit.r2s)
        opened == decrypt_record(frame, rkey)
    IN
    /\ e.pc = "ack" /\ transit.r2s # <<>>
    /\ \E o \in ReadOutcomes(frame) :
         transit' =
           [transit EXCEPT
              !.r2s = Tail(@),
              !.snd =
                 CASE o = "io error" -> Returned(e, o)
                   [] o = "panicked" -> [e EXCEPT !.pc = o]
                   [] ~opened.ok -> Returned(e, "decryption failed")
                   [] OTHER ->
                        Returned([e EXCEPT !.ack = <<opened.pt>>],
                                 IF AckMatches(opened.pt, Sha256(e.hasher))
                                 THEN "Ok" ELSE "receive checksum error")]
    /\ UNCHANGED <<mainVars, wormhole, got, nego, record, shake>>

\* remaining_size -= plaintext.len(): below zero the subtraction panics in a
\* build with overflow checks (-1 here) and wraps in one without
Remaining(remaining_size, len) ==
    IF len <= remaining_size THEN {remaining_size - len}
    ELSE {-1, (remaining_size - len) % UsizeMod}

\* receive_records, one turn of `while remaining_size > 0`: receive a
\* record, decrypt it with skey, write and hash the plaintext
RecvRecord ==
    LET e == transit.rcv
        frame == Head(transit.s2r)
        opened == decrypt_record(frame, skey)
    IN
    /\ e.pc = "records" /\ e.remaining_size > 0 /\ transit.s2r # <<>>
    /\ \E o \in ReadOutcomes(frame), left \in Remaining(e.remaining_size, Len(opened.pt)) :
         transit' =
           [transit EXCEPT
              !.s2r = Tail(@),
              !.rcv =
                 CASE o = "io error" ->
                        Returned([e EXCEPT !.hit = @ \/ ~frame.intact], o)
                   [] o = "panicked" -> [e EXCEPT !.pc = o, !.hit = @ \/ ~frame.intact]
                   [] ~opened.ok ->
                        Returned([e EXCEPT !.hit = @ \/ ~frame.intact],
                                 "decryption failed")
                   [] left < 0 ->
                        [e EXCEPT !.pc = "panicked", !.hit = @ \/ ~frame.intact,
                                  !.written = WriteAll(@, opened.pt),
                                  !.hasher = @ \o opened.pt]
                   [] OTHER ->
                        [e EXCEPT !.written = WriteAll(@, opened.pt),
                                  !.hasher = @ \o opened.pt,
                                  !.hit = @ \/ ~frame.intact,
                                  !.remaining_size = left]]
    /\ UNCHANGED <<mainVars, wormhole, got, nego, record, shake>>

\* the receiver's read ends without a frame
RecvFails ==
    /\ transit.rcv.pc = "records" /\ transit.rcv.remaining_size > 0
    /\ transit.s2r = <<>>
    /\ transit' = [transit EXCEPT !.rcv = Returned(@, "io error")]
    /\ UNCHANGED <<mainVars, wormhole, got, nego, record, shake>>

\* tcp_file_receive after receive_records: send the ack with the hex of the
\* receiver's own sha256, encrypted under rkey with nonce 0
RecvAck ==
    LET e == transit.rcv IN
    /\ e.pc = "records" /\ e.remaining_size = 0
    /\ transit' =
         [transit EXCEPT
            !.r2s = Append(@, encrypt_record(
                                 TransitAck(HexEncode(Sha256(e.hasher))), 0, rkey)),
            !.rcv = Returned([e EXCEPT !.acked = TRUE,
                                       !.sent = Append(@, encrypt_record(
                                           TransitAck(HexEncode(Sha256(e.hasher))),
                                           0, rkey))], "Ok")]
    /\ UNCHANGED <<mainVars, wormhole, got, nego, record, shake>>

FrameParts == {"length", "nonce", "body"}

\* the network changes one bit of a frame in flight
Flip(dir, i, part) ==
    /\ transit.flips < MaxFlips
    /\ i \in 1..Len(transit[dir])
    /\ transit[dir][i].intact
    /\ transit' = [transit EXCEPT !.flips = @ + 1,
                                  ![dir][i].intact = FALSE,
                                  ![dir][i].part = part]
    /\ UNCHANGED <<mainVars, wormhole, got, nego, record, shake>>

NextHints ==
    \/ \E end \in Ends, outcome \in AttemptOutcomes : Attempt(end, outcome)
    \/ \E end \in Ends : NoHost(end)

NextTransit ==
    \/ NextHints
    \/ SendRecord \/ SendFails \/ SendAck
    \/ RecvRecord \/ RecvFails \/ RecvAck
    \/ \E dir \in {"s2r", "r2s"}, i \in 1..(MaxFile + 2), part \in FrameParts :
         Flip(dir, i, part)

SpecHints == InitHints /\ [][NextHints]_vars

SpecTransit == InitTransit /\ [][NextTransit]_vars

\* the bytes the sender has read from its file
BytesRead == SubSeq(transit.snd.file, 1, transit.snd.pos)

\* C17: when send_file returns Ok, the SHA-256 of the bytes the receiver
\* wrote equals the SHA-256 of the bytes the sender read from its file.
C17_ChecksumAgree ==
    transit.snd.result = "Ok" =>
        Sha256(transit.rcv.written) = Sha256(BytesRead)

\* a file of two records was sent over a connection and send_file returned Ok
C17_Witness ==
    /\ transit.snd.result = "Ok" /\ transit.snd.tried # <<>>
    /\ Len(transit.snd.file) = MaxFile /\ transit.snd.pos = MaxFile
    /\ transit.rcv.written = transit.snd.file

\* the sender has decrypted an ack whose sha256 is not that of what it sent
AckDiffers ==
    /\ transit.snd.ack # <<>>
    /\ transit.snd.ack[1].sha256 # HexEncode(Sha256(transit.snd.hasher))

\* C18: when the sha256 of the decrypted transit ack differs from the
\* SHA-256 the sender accumulated over the plaintext it sent, send_file
\* returns the checksum error, never Ok.
C18_ChecksumError ==
    AckDiffers => /\ transit.snd.pc = "done"
                  /\ transit.snd.result = "receive checksum error"

\* the receiver was told a size smaller than the file, stopped after the
\* first record and acknowledged its hash: the sender returned the error
C18_Witness ==
    /\ AckDiffers
    /\ transit.rcv.acked /\ transit.rcv.written # transit.snd.file
    /\ transit.snd.result = "receive checksum error"

\* an end has returned or panicked
Over(e) == e.pc \in {"done", "panicked"}

\* C19: when one bit of a record frame is flipped in transit, the receiver
\* computes a SHA-256 that differs from the sender's and still sends its ack,
\* and the sender returns the checksum error.
C19_FlipChecksum ==
    transit.rcv.hit =>
        /\ Over(transit.rcv) =>
             transit.rcv.acked /\ transit.rcv.hasher # transit.snd.hasher
        /\ Over(transit.snd) => transit.snd.result = "receive checksum error"

\* C19 as the code has it: a record frame with a flipped bit does not open.
\* The receiver that reads it stops there with an error (or panics), writes
\* nothing of it and sends no ack; the sender does not return Ok, and what it
\* returns is not the checksum error but the failure of its connection.
C19_FlipRejected ==
    transit.rcv.hit =>
        /\ Over(transit.rcv) /\ transit.rcv.result # "Ok"
        /\ ~transit.rcv.acked /\ transit.r2s = <<>>
        /\ \A i \in 1..Len(transit.rcv.written) :
             transit.rcv.written[i] = transit.snd.file[i]
        /\ transit.snd.result \notin {"Ok", "receive checksum error"}
        /\ Over(transit.snd) /\ transit.snd.pc = "done" =>
             transit.snd.result = "io error"

\* the second record was flipped: the receiver wrote the first, failed to
\* decrypt the second, and the sender's wait for the ack ended in an error
C19_Witness ==
    /\ transit.rcv.hit /\ transit.rcv.result = "decryption failed"
    /\ transit.rcv.written # <<>>
    /\ transit.snd.pc = "done" /\ transit.snd.result = "io error"
    /\ transit.snd.pos = Len(transit.snd.file)

\* C20: in send_file and in receive_file the hosts are attempted with the
\* direct ones first: the attempts are the DirectTcpV1 hints of the message,
\* in the order of the message, and only after all of them relay endpoints,
\* whatever the order of the hints in the message.
C20_DirectFirst ==
    \A end \in Ends :
        LET direct == SelectSeq(transit[end].hints, IsDirect)
            tried == transit[end].tried
        IN \A i \in 1..Len(tried) :
             IF i <= Len(direct) THEN tried[i] = DirectHost(direct[i])
             ELSE tried[i][1] = "Relay"

\* the message lists a relay hint between two direct ones: both direct hosts
\* were attempted, in their order, before the relay's host
C20_Witness ==
    /\ transit.snd.hints =
         <<DirectTcpV1("d2"), RelayV1(<<"r1">>), DirectTcpV1("d1")>>
    /\ transit.snd.tried = <<<<"Direct", "d2">>, <<"Direct", "d1">>, <<"Relay", "r1">>>>
    /\ transit.rcv.hints = <<RelayV1(<<"r2", "r3">>), DirectTcpV1("d1")>>
    /\ Len(transit.rcv.tried) = 3

\* the ways an attempt on one hint fails: the TCP connection is not made, the
\* handshake returns an error (an I/O error or a timeout in the relay part
\* or in the sender's role part, a line that does not match), or an I/O
\* error or a timeout in the receiver's role part
HintFailures == {"connect failed", "handshake failed", "handshake panicked"}

\* the end is still in its loop over the hosts, or left it at its end
GoesOn(e) == e.pc = "hosts" \/ (e.pc = "done" /\ e.hosts = <<>> /\ ~e.shook)

\* C21: a failure on one hint is not fatal, for the sender and for the
\* receiver: the hint is skipped and the call goes on with the next hint.
C21_HintSkipped ==
    \A end \in Ends : transit[end].last \in HintFailures => GoesOn(transit[end])

\* what the code does keep: the sender skips a hint on every failure, the
\* receiver on those its handshake returns as an error
C21_ErrorsSkipped ==
    \A end \in Ends :
        transit[end].last \in {"connect failed", "handshake failed"} =>
            GoesOn(transit[end])

\* C22: when every hint was attempted and no handshake completed (also with
\* no hint at all) the call returns an error: it never reports success
\* without a file having been transferred.
C22_ExhaustedFails ==
    \A end \in Ends :
        (Over(transit[end]) /\ ~transit[end].shook) => transit[end].result # "Ok"

\* C23: the first socket whose handshake completes wins: from then on no
\* further hint is attempted, one record stream is run, and what the call
\* returns is what that stream returned.
C23_FirstWins ==
    /\ [](\A end \in Ends :
            transit[end].shook =>
              /\ transit[end].pc # "hosts"
              /\ transit[end].streams = 1
              /\ transit[end].last = "connected"
              /\ transit[end].pc = "done" => transit[end].result # "")
    /\ [][\A end \in Ends :
            transit[end].shook =>
              /\ transit'[end].tried = transit[end].tried
              /\ transit'[end].hosts = transit[end].hosts
              /\ transit[end].pc = "done" => transit'[end] = transit[end]]_vars

\* the sender's first host completed the handshake, its stream failed, and
\* send_file returned that failure with a host left untried
C23_Witness ==
    /\ transit.snd.shook /\ Len(transit.snd.tried) = 1
    /\ transit.snd.hosts # <<>>
    /\ transit.snd.pc = "done" /\ transit.snd.result = "io error"

\* ================================================ negotiation by messages
\* Wormhole::send and Wormhole::receive up to the TCP attempts.  The two
\* ends talk through their wormholes: what one hands to send_message the
\* other gets from get_message, in order.  The messages are PeerMessage
\* values, named by their variant.
PeerKinds ==
    {"transit", "offer-message", "offer-file", "offer-directory",
     "answer-file_ack-ok", "answer-file_ack-no", "answer-message_ack", "error"}

Other(end) == IF end = "snd" THEN "rcv" ELSE "snd"

\* MessageType::File starts with derive_transit_key, MessageType::Message
\* with send_message
SendStart(kind) == IF kind = "file" THEN "key" ELSE "send_message"

NegoNew(kind, sender) ==
    [kind |-> kind,
     snd |-> [pc |-> sender, result |-> ""],
     rcv |-> [pc |-> "receive", result |-> ""],
     key |-> [snd |-> FALSE, rcv |-> FALSE], verifier |-> FALSE,
     out |-> [snd |-> <<>>, rcv |-> <<>>],
     inbox |-> [snd |-> <<>>, rcv |-> <<>>],
     peer |-> 0, log |-> <<>>]

InitSession ==
    /\ InitCore /\ wormhole = WormholeNew /\ got = GotNew
    /\ transit = TransitNone /\ record = RecordNone /\ shake = ShakeNone

\* both ends run this code
InitNegotiate ==
    /\ InitSession
    /\ nego \in {NegoNew(kind, SendStart(kind)) : kind \in {"file", "message"}}

\* the receiver runs this code, its peer sends what it likes
InitReceive == InitSession /\ nego = NegoNew("any", "peer")

\* send_message
Sent(n, end, m, to) ==
    [n EXCEPT !.out[end] = Append(@, m), ![end].pc = to,
              !.log = Append(@, <<end, "sent", m>>)]

\* get_message, and where the call goes with the message
Got(n, end, to) ==
    [n EXCEPT !.inbox[end] = Tail(@), ![end].pc = to,
              !.log = Append(@, <<end, "got", Head(n.inbox[end])>>)]

\* bail! / ensure! / `?`: the call returns the error
Bail(n, end, err) == [n EXCEPT ![end].pc = "done", ![end].result = err]

\* w.close() comes before the Ok of the call
Closing(n, end) == [n EXCEPT ![end].pc = "close"]

\* faulty variant: the sender goes on to its offer without waiting for the
\* peer's transit message (C24 must detect it)
SenderSkipsWait == "send_offer"

\* send_file: after send_message(transit_msg) comes get_message
SenderSentTransit == "wait_transit"

\* the wormhole carries the next message of one end to the other
Deliver(end) ==
    /\ nego.out[end] # <<>>
    /\ nego' = [nego EXCEPT !.out[end] = Tail(@),
                            !.inbox[Other(end)] = Append(@, Head(nego.out[end]))]
    /\ UNCHANGED <<mainVars, wormhole, got, transit, record, shake>>

\* the engine sends the key on tx_key_to_transit
KeyArrives(end) ==
    /\ ~nego.key[end]
    /\ nego' = [nego EXCEPT !.key[end] = TRUE]
    /\ UNCHANGED <<mainVars, wormhole, got, transit, record, shake>>

\* the engine sends the verifier on tx_verifier_to_app
VerifierArrives ==
    /\ ~nego.verifier
    /\ nego' = [nego EXCEPT !.verifier = TRUE]
    /\ UNCHANGED <<mainVars, wormhole, got, transit, record, shake>>

\* Wormhole::send and send_file, one call of the front end at a time
SenderStep ==
    LET at == nego.snd.pc
        m == Head(nego.inbox.snd)
    IN
    /\ nego' =
         CASE at = "send_message" -> Sent(nego, "snd", "offer-message", "verifier")
           [] at = "verifier" /\ nego.verifier -> Closing(nego, "snd")
           [] at = "close" -> [nego EXCEPT !.snd.pc = "done", !.snd.result = "Ok"]
           [] at = "key" /\ nego.key.snd -> [nego EXCEPT !.snd.pc = "send_transit"]
           [] at = "send_transit" -> Sent(nego, "snd", "transit", SenderSentTransit)
           [] at = "wait_transit" /\ nego.inbox.snd # <<>> ->
                IF m = "transit" THEN Got(nego, "snd", "send_offer")
                ELSE Bail(Got(nego, "snd", at), "snd", "unexpected message")
           [] at = "send_offer" -> Sent(nego, "snd", "offer-file", "wait_ack")
           [] at = "wait_ack" /\ nego.inbox.snd # <<>> ->
                CASE m = "answer-file_ack-ok" ->
                        [Got(nego, "snd", "tcp") EXCEPT
                            !.log = Append(@, <<"snd", "tcp">>)]
                  [] m = "answer-file_ack-no" ->
                        Bail(Got(nego, "snd", at), "snd", "file ack failed")
                  [] OTHER ->
                        Bail(Got(nego, "snd", at), "snd", "did not receive file ack")
           [] OTHER -> nego
    /\ nego' # nego
    /\ UNCHANGED <<mainVars, wormhole, got, transit, record, shake>>

\* Wormhole::receive: the first message decides what the call does
Receive(n, m) ==
    CASE m = "offer-message" ->
            Sent(n, "rcv", "answer-message_ack", "close")
      [] m \in {"offer-file", "offer-directory"} ->
            Sent(n, "rcv", "answer-file_ack-ok", "close")
      [] m \in {"answer-file_ack-ok", "answer-file_ack-no", "answer-message_ack"} ->
            Bail(n, "rcv", "Should not receive answer type, I'm receiver")
      [] m = "error" -> Closing(n, "rcv")
      [] m = "transit" -> [n EXCEPT !.rcv.pc = "key"]

\* receive_file: the message after the transit message must be a file offer
ReceiveOffer(n, m) ==
    CASE m = "offer-file" -> [n EXCEPT !.rcv.pc = "send_ack"]
      [] m \in {"offer-message", "offer-directory"} ->
            Bail(n, "rcv", "unexpected offer type")
      [] OTHER -> Bail(n, "rcv", "unexpected message")

\* Wormhole::receive and receive_file, one call of the front end at a time
ReceiverStep ==
    LET at == nego.rcv.pc
        m == Head(nego.inbox.rcv)
    IN
    /\ nego' =
         CASE at = "receive" /\ nego.inbox.rcv # <<>> ->
                Receive(Got(nego, "rcv", at), m)
           [] at = "close" -> [nego EXCEPT !.rcv.pc = "done", !.rcv.result = "Ok"]
           [] at = "key" /\ nego.key.rcv -> [nego EXCEPT !.rcv.pc = "send_transit"]
           [] at = "send_transit" -> Sent(nego, "rcv", "transit", "wait_offer")
           [] at = "wait_offer" /\ nego.inbox.rcv # <<>> ->
                ReceiveOffer(Got(nego, "rcv", at), m)
           [] at = "send_ack" ->
                [Sent(nego, "rcv", "answer-file_ack-ok", "tcp") EXCEPT
                    !.log = Append(@, <<"rcv", "tcp">>)]
           [] OTHER -> nego
    /\ nego' # nego
    /\ UNCHANGED <<mainVars, wormhole, got, transit, record, shake>>

\* a peer that is not this code sends a message of any kind
PeerSends(m) ==
    /\ nego.snd.pc = "peer" /\ nego.peer < MaxPeerMsgs
    /\ nego' = [nego EXCEPT !.peer = @ + 1, !.out.snd = Append(@, m)]
    /\ UNCHANGED <<mainVars, wormhole, got, transit, record, shake>>

Wormholes ==
    \/ \E end \in Ends : Deliver(end) \/ KeyArrives(end)
    \/ VerifierArrives

NextNegotiate == SenderStep \/ ReceiverStep \/ Wormholes

NextReceive == (\E m \in PeerKinds : PeerSends(m)) \/ ReceiverStep \/ Wormholes

\* both threads run, and both wormholes deliver, for as long as they can
SpecNegotiate == InitNegotiate /\ [][NextNegotiate]_vars /\ WF_vars(NextNegotiate)

SpecReceive == InitReceive /\ [][NextReceive]_vars

\* every b in the log has an a before it
Before(a, b) ==
    \A j \in 1..Len(nego.log) :
        nego.log[j] = b => \E i \in 1..(j - 1) : nego.log[i] = a

\* both ends have started their TCP attempts
BothAtTcp == nego.snd.pc = "tcp" /\ nego.rcv.pc = "tcp"

\* C24: the negotiation follows a fixed order and does not deadlock.  The
\* sender sends its transit message, waits for the peer's, only then sends
\* the file offer, and starts its TCP attempts only after file_ack "ok"; the
\* receiver sends its transit message after it got the sender's, its
\* file_ack after it got the offer, and starts its TCP attempts after it
\* sent the file_ack.  When both run, every wait ends: both reach their TCP
\* attempts.
C24_Negotiation ==
    /\ [](/\ Before(<<"snd", "sent", "transit">>, <<"snd", "got", "transit">>)
          /\ Before(<<"snd", "got", "transit">>, <<"snd", "sent", "offer-file">>)
          /\ Before(<<"snd", "got", "answer-file_ack-ok">>, <<"snd", "tcp">>)
          /\ Before(<<"rcv", "got", "transit">>, <<"rcv", "sent", "transit">>)
          /\ Before(<<"rcv", "got", "offer-file">>,
                    <<"rcv", "sent", "answer-file_ack-ok">>)
          /\ Before(<<"rcv", "sent", "answer-file_ack-ok">>, <<"rcv", "tcp">>)
          /\ nego.snd.result \in {"", "Ok"} /\ nego.rcv.result \in {"", "Ok"})
    /\ (nego.kind = "file") ~> BothAtTcp

\* a file was offered and both ends are at their TCP attempts, the mailboxes
\* empty
C24_Witness ==
    /\ nego.kind = "file" /\ BothAtTcp
    /\ Len(nego.log) = 10
    /\ nego.out = [snd |-> <<>>, rcv |-> <<>>]

\* the receiver got a directory offer at index i of the log
GotDirectory(i) == nego.log[i] = <<"rcv", "got", "offer-directory">>

\* C27: a directory offer is unsupported: the receiver that gets one returns
\* an error and does not answer file_ack "ok".
C27_DirectoryRefused ==
    \A i \in 1..Len(nego.log) :
        GotDirectory(i) =>
            /\ nego.rcv.pc # "tcp" /\ nego.rcv.result # "Ok"
            /\ \A j \in (i + 1)..Len(nego.log) :
                 nego.log[j] # <<"rcv", "sent", "answer-file_ack-ok">>

\* what the code does keep: a directory offer that comes after the transit
\* message, where the file offer is due, is refused with an error
C27_RefusedAfterTransit ==
    \A i \in 2..Len(nego.log) :
        (GotDirectory(i) /\ nego.log[i - 1] = <<"rcv", "sent", "transit">>) =>
            /\ nego.rcv.pc = "done" /\ nego.rcv.result = "unexpected offer type"
            /\ i = Len(nego.log)

\* ================================================ records, byte by byte
\* encrypt_record, send_record, receive_record and decrypt_record on the
\* bytes they handle.  A byte is a bit here; secretbox is a stream cipher
\* with an authenticator in front of the ciphertext.
RECURSIVE SumSeq(_)
SumSeq(q) == IF q = <<>> THEN 0 ELSE Head(q) + SumSeq(Tail(q))

\* Vec::reverse
Reverse(q) == [i \in 1..Len(q) |-> q[Len(q) + 1 - i]]

Plaintexts == UNION {[1..n -> Bytes] : n \in 0..MaxPlain}
Nonces == [1..NonceBytes -> Bytes]
Keys == {0, 1}

\* the key stream of a key and a nonce at position i (the nonce as a number,
\* first byte highest)
Pad(nonce, key, i) == key + nonce[1] * 2 + nonce[2] + i

\* secretbox::seal: the authenticator, then the plaintext under the key stream
SecretboxSeal(plaintext, nonce, key) ==
    <<(SumSeq(plaintext) + Len(plaintext) + Pad(nonce, key, 0)) % 2>>
        \o [i \in 1..Len(plaintext) |-> (plaintext[i] + Pad(nonce, key, i)) % 2]

\* secretbox::open: Err(()) unless the authenticator is the one of the
\* plaintext under this key and nonce
SecretboxOpen(ciphertext, nonce, key) ==
    IF ciphertext = <<>> THEN [ok |-> FALSE, pt |-> <<>>]
    ELSE LET c == Tail(ciphertext)
             plaintext == [i \in 1..Len(c) |-> (c[i] + Pad(nonce, key, i)) % 2]
         IN  IF SecretboxSeal(plaintext, nonce, key)[1] = ciphertext[1]
             THEN [ok |-> TRUE, pt |-> plaintext]
             ELSE [ok |-> FALSE, pt |-> <<>>]

\* encrypt_record on bytes: the nonce reversed, sealed under it, the reversed
\* nonce in front of the ciphertext
EncryptRecordBytes(plaintext, nonce, key) ==
    LET nonce_vec == Reverse(nonce)
    IN  nonce_vec \o SecretboxSeal(plaintext, nonce_vec, key)

\* decrypt_record on bytes: split_at(NONCEBYTES) panics on a shorter packet
DecryptRecordBytes(enc_packet, key) ==
    IF Len(enc_packet) < NonceBytes THEN [ok |-> FALSE, pt |-> <<>>, panic |-> TRUE]
    ELSE LET opened == SecretboxOpen(SubSeq(enc_packet, NonceBytes + 1, Len(enc_packet)),
                                     SubSeq(enc_packet, 1, NonceBytes), key)
         IN  [ok |-> opened.ok, pt |-> opened.pt, panic |-> FALSE]

\* u32::to_be_bytes
RECURSIVE ToBeBytes(_, _)
ToBeBytes(v, n) == IF n = 0 THEN <<>> ELSE Append(ToBeBytes(v \div 2, n - 1), v % 2)

\* u32::from_be_bytes
RECURSIVE FromBeBytes(_)
FromBeBytes(q) ==
    IF q = <<>> THEN 0 ELSE FromBeBytes(SubSeq(q, 1, Len(q) - 1)) * 2 + q[Len(q)]

\* send_record: buf.len() as u32, its bytes, then buf
send_record(stream, buf) == stream \o ToBeBytes(Len(buf) % U32Mod, LenBytes) \o buf

\* receive_record, the loop: read_exact into the front of buf, all of buf
\* appended to the packet
RECURSIVE ReadChunks(_, _, _, _)
ReadChunks(stream, length, buf, enc_packet) ==
    IF length = 0 THEN [ok |-> TRUE, enc_packet |-> enc_packet, stream |-> stream]
    ELSE LET to_read == IF length < BufLen THEN length ELSE BufLen
         IN  IF Len(stream) < to_read
             THEN [ok |-> FALSE, enc_packet |-> <<>>, stream |-> <<>>]
             ELSE LET filled == SubSeq(stream, 1, to_read)
                                    \o SubSeq(buf, to_read + 1, BufLen)
                  IN  ReadChunks(SubSeq(stream, to_read + 1, Len(stream)),
                                 length - to_read, filled, enc_packet \o filled)

\* Vec::truncate
Truncate(q, n) == IF Len(q) <= n THEN q ELSE SubSeq(q, 1, n)

\* receive_record: the length, the chunks, truncate to the length
receive_record(stream) ==
    IF Len(stream) < LenBytes THEN [ok |-> FALSE, enc_packet |-> <<>>, stream |-> <<>>]
    ELSE LET length == FromBeBytes(SubSeq(stream, 1, LenBytes))
             read == ReadChunks(SubSeq(stream, LenBytes + 1, Len(stream)), length,
                                [i \in 1..BufLen |-> 0], <<>>)
         IN  [read EXCEPT !.enc_packet = Truncate(@, length)]

\* one record: its plaintext, nonce and key, sealed or handed to send_record
\* as it is
RecordNew(m, n, k, sealed) ==
    [pc |-> IF sealed THEN "plain" ELSE "packet", m |-> m, n |-> n, k |-> k,
     sealed |-> sealed, buf |-> IF sealed THEN <<>> ELSE m,
     stream |-> <<>>, got |-> [ok |-> FALSE, enc_packet |-> <<>>, stream |-> <<>>],
     out |-> [ok |-> FALSE, pt |-> <<>>, panic |-> FALSE]]

InitRecord ==
    /\ InitCore /\ wormhole = WormholeNew /\ got = GotNew
    /\ transit = TransitNone /\ nego = NegoNone /\ shake = ShakeNone
    /\ record \in {RecordNew(m, n, k, sealed) :
                     m \in Plaintexts, n \in Nonces, k \in Keys, sealed \in BOOLEAN}

Encrypt ==
    /\ record.pc = "plain"
    /\ record' = [record EXCEPT !.pc = "packet",
                     !.buf = EncryptRecordBytes(record.m, record.n, record.k)]
    /\ UNCHANGED <<mainVars, wormhole, got, transit, nego, shake>>

WriteRecord ==
    /\ record.pc = "packet"
    /\ record' = [record EXCEPT !.pc = "written",
                     !.stream = send_record(record.stream, record.buf)]
    /\ UNCHANGED <<mainVars, wormhole, got, transit, nego, shake>>

ReadRecord ==
    /\ record.pc = "written"
    /\ record' = [record EXCEPT !.pc = "read", !.got = receive_record(record.stream)]
    /\ UNCHANGED <<mainVars, wormhole, got, transit, nego, shake>>

Decrypt ==
    /\ record.pc = "read" /\ record.got.ok
    /\ record' = [record EXCEPT !.pc = "opened",
                     !.out = DecryptRecordBytes(record.got.enc_packet, record.k)]
    /\ UNCHANGED <<mainVars, wormhole, got, transit, nego, shake>>

NextRecord == Encrypt \/ WriteRecord \/ ReadRecord \/ Decrypt

SpecRecord == InitRecord /\ [][NextRecord]_vars

\* the record read is the record written, and what it opens to is the
\* plaintext that was sealed
RoundTrip ==
    /\ record.pc \in {"read", "opened"} =>
          /\ record.got.ok /\ record.got.enc_packet = record.buf
          /\ record.got.stream = <<>>
    /\ (record.pc = "opened" /\ record.sealed) =>
          /\ record.out.ok /\ record.out.pt = record.m

C25_RoundTripU32 ==
    /\ record.pc = "packet" /\ record.sealed =>
          LET opened == DecryptRecordBytes(record.buf, record.k)
          IN  opened.ok /\ opened.pt = record.m
    /\ Len(record.buf) < U32Mod => RoundTrip

\* a sealed record whose length is not a multiple of the buffer went through
C25_Witness ==
    /\ record.pc = "opened" /\ record.sealed
    /\ Len(record.buf) % BufLen = 1 /\ Len(record.buf) > 2 * BufLen
    /\ record.out.pt = record.m /\ record.m # <<>>

\* C26: the sender's nonce starts at 0 and goes up by exactly 1 after each
\* record: record number k of a transfer (k = 0, 1, ..) is sealed under the
\* sender record key with nonce k, so no two records share a nonce; the
\* transit ack is sealed under the receiver record key with nonce 0.
C26_NonceCounter ==
    /\ \A i \in 1..Len(transit.snd.sent) :
          /\ transit.snd.sent[i].key = skey
          /\ transit.snd.sent[i].nonce = i - 1
    /\ transit.snd.nonce = Len(transit.snd.sent)
    /\ \A i \in 1..Len(transit.rcv.sent) :
          transit.rcv.sent[i].key = rkey /\ transit.rcv.sent[i].nonce = 0

\* two records were sent and the ack for them is on its way
C26_Witness ==
    /\ Len(transit.snd.sent) = 2 /\ Len(transit.rcv.sent) = 1
    /\ transit.snd.sent[2].pt # <<>>

\* the Timing events of a list of events, in their order
TimingOf(events) == SelectSeq(events, LAMBDA e : e.m = "Timing")

\* the turn of _execute's loop that takes the first event of the queue
Turn == pc = "exec" /\ deq' # deq

\* the Timing events in the output of a turn are appended to the timing log,
\* once and in their order; a Timing event that is taken from the queue goes
\* to no machine; no Timing event is among the returned actions
OutputLogged ==
    /\ Turn =>
          /\ timing' = timing \o TimingOf(Dispatch(core, Head(event_queue)).out)
          /\ Head(event_queue).m = "Timing" =>
                core' = core /\ action_queue' = action_queue
    /\ \A i \in 1..Len(action_queue') : action_queue'[i].m # "Timing"

\* C28: every Timing event produced during a do_api / do_io call, in the
\* first batch of the call or in the output of a later transition, is
\* appended to the timing log exactly once and then discarded: no machine
\* handles it and it is not among the returned actions.
C28_TimingLogged ==
    [][/\ (pc # "exec" /\ pc' = "exec") =>
              timing' = timing \o TimingOf(event_queue')
       /\ OutputLogged
       /\ (~Turn /\ ~(pc # "exec" /\ pc' = "exec")) => timing' = timing]_vars

\* what the code does keep: the same for the Timing events in the output of
\* a transition; the log changes in no other step
C28_OutputLogged ==
    [][OutputLogged /\ (~Turn => timing' = timing)]_vars

\* CoreWrapper::run takes a TimerExpired from its channel
TakesExpiry == pc = "recv" /\ pc' # "recv" /\ input'.t = "TimerExpired"

\* C29: a timer is cancelled by its handle.  TimerExpired(h) is passed to the
\* engine only if h is in the glue's timer set when it is taken from the
\* channel; once CancelTimer(h) was processed, and h not started again, the
\* expiry that was already on its way is dropped and the engine is not
\* called, wherever in the channel it was.
C29_CancelledDropped ==
    [][TakesExpiry =>
          /\ (pc' = "exec") <=> (input'.h \in timers)
          /\ input'.h \notin in_flight =>
                /\ pc' = "dispatch" /\ core' = core
                /\ event_queue' = <<>> /\ action_queue' = <<>>]_vars

\* an expiry was taken from the channel after its timer had been cancelled,
\* and the engine was not called
C29_Witness ==
    /\ pc = "dispatch" /\ input.t = "TimerExpired"
    /\ input.h \notin timers /\ input.h \notin in_flight
    /\ deq = <<>> /\ actions = <<>>

\* ================================================ the handshake on a socket
\* tx_handshake_exchange (the sender) and rx_handshake_exchange (the
\* receiver) on the two ends of one connection, direct or through the relay.
\* A stream is a sequence of tokens; each stands for a run of bytes, and
\* read_exact returns when as many tokens as it asks for have arrived.
TransitKeys == {"k1", "k2"}

\* derive_key_from_purpose, hex::encode: different keys or purposes give
\* different sub-keys
SubKey(key, purpose) == <<purpose, key>>

\* make_send_handshake
make_send_handshake(key) ==
    <<"transit sender ">> \o SubKey(key, "transit_sender") \o <<" ready\n\n">>

\* make_receive_handshake
make_receive_handshake(key) ==
    <<"transit receiver ">> \o SubKey(key, "transit_receiver") \o <<" ready\n\n">>

\* make_relay_handshake
make_relay_handshake(key, tside) ==
    <<"please relay ">> \o SubKey(key, "transit_relay_token")
        \o <<" for side ", tside, "\n">>

go_msg == <<"go\n">>
ok_msg == <<"ok\n">>

\* make_record_keys
make_record_keys(key) == <<SubKey(key, skey), SubKey(key, rkey)>>

\* faulty variant: whatever was read is taken for the expected line (C30
\* must detect it)
AnyLine(expected, rx) == TRUE

\* ensure!(r_handshake == &rx[..]) / ensure!(s_handshake == &rx[..])
SameBytes(expected, rx) == expected = rx

\* faulty variant: the role part is begun at once on a relay hint as well
\* (C31 must detect it)
SkipsRelay(relay) == "send_line"

\* `if host_type == HostType::Relay`: the relay part comes first
FirstStep(relay) == IF relay THEN "relay_send" ELSE "send_line"

\* one end at the start of its exchange
ShakeEnd(relay) ==
    [pc |-> FirstStep(relay), trace |-> <<>>,
     rx |-> <<>>, went |-> FALSE, result |-> "", keys |-> <<>>]

ShakeNew(ks, kr, relay) ==
    [key |-> [snd |-> ks, rcv |-> kr], relay |-> relay,
     snd |-> ShakeEnd(relay), rcv |-> ShakeEnd(relay),
     in |-> [snd |-> <<>>, rcv |-> <<>>],
     asked |-> [snd |-> <<>>, rcv |-> <<>>], paired |-> FALSE,
     refused |-> FALSE]

InitHandshake ==
    /\ InitCore /\ wormhole = WormholeNew /\ got = GotNew
    /\ transit = TransitNone /\ nego = NegoNone /\ record = RecordNone
    /\ shake \in {ShakeNew(ks, kr, relay) :
                    ks \in TransitKeys, kr \in TransitKeys, relay \in BOOLEAN}

\* send_buffer: to the relay until it has paired the two sockets, to the
\* peer from then on
Written(sh, end, bytes) ==
    IF sh.relay /\ ~sh.paired
    THEN [sh EXCEPT !.asked[end] = @ \o bytes,
                    ![end].trace = Append(@, <<"sent", bytes>>)]
    ELSE [sh EXCEPT !.in[Other(end)] = @ \o bytes,
                    ![end].trace = Append(@, <<"sent", bytes>>)]

\* recv_buffer: the first n tokens of what has arrived
Taken(sh, end, n) ==
    [sh EXCEPT !.in[end] = SubSeq(@, n + 1, Len(@)),
               ![end].rx = SubSeq(sh.in[end], 1, n),
               ![end].trace = Append(@, <<"read", SubSeq(sh.in[end], 1, n)>>)]

\* Ok((skey, rkey))
Succeeds(sh, end) ==
    [sh EXCEPT ![end].pc = "done", ![end].result = "Ok",
               ![end].keys = make_record_keys(sh.key[end])]

\* Err(..)
Refused(sh, end, err) == [sh EXCEPT ![end].pc = "done", ![end].result = err]

\* the relay part of both exchanges: the request, then three bytes that must
\* be "ok\n"
RelayStep(end) ==
    LET e == shake[end] IN
    /\ e.pc \in {"relay_send", "relay_wait"}
    /\ e.pc = "relay_wait" => Len(shake.in[end]) >= Len(ok_msg)
    /\ shake' =
         IF e.pc = "relay_send"
         THEN [Written(shake, end, make_relay_handshake(shake.key[end], end))
                  EXCEPT ![end].pc = "relay_wait"]
         ELSE IF SameBytes(ok_msg, SubSeq(shake.in[end], 1, Len(ok_msg)))
              THEN [Taken(shake, end, Len(ok_msg)) EXCEPT ![end].pc = "send_line"]
              ELSE Refused(Taken(shake, end, Len(ok_msg)), end, "relay handshake failed")
    /\ UNCHANGED <<mainVars, wormhole, got, transit, nego, record>>

\* the relay has the requests of two sockets with one token and different
\* sides: it answers both and joins the sockets
RelayPairs ==
    /\ shake.relay /\ ~shake.paired /\ ~shake.refused
    /\ shake.asked.snd # <<>> /\ shake.asked.rcv # <<>>
    /\ SubSeq(shake.asked.snd, 1, 3) = SubSeq(shake.asked.rcv, 1, 3)
    /\ shake' = [shake EXCEPT !.paired = TRUE,
                              !.in = [snd |-> ok_msg, rcv |-> ok_msg]]
    /\ UNCHANGED <<mainVars, wormhole, got, transit, nego, record>>

\* three bytes a relay may answer with that are not "ok\n"
RelayReplies == {<<"no\n">>, <<"ok ">>}

\* the relay answers a request with something else than "ok\n"
RelayRefuses(end, reply) ==
    /\ shake.relay /\ ~shake.paired /\ ~shake.refused
    /\ shake.asked[end] # <<>>
    /\ shake' = [shake EXCEPT !.refused = TRUE, !.in[end] = reply]
    /\ UNCHANGED <<mainVars, wormhole, got, transit, nego, record>>

\* tx_handshake_exchange, the role part: the sender line, 89 bytes that must
\* be the receiver line of the own key, then "go\n"
TxStep ==
    LET e == shake.snd
        expected == make_receive_handshake(shake.key.snd)
        read == Taken(shake, "snd", Len(expected))
    IN
    /\ e.pc \in {"send_line", "wait_line", "go"}
    /\ e.pc = "wait_line" => Len(shake.in.snd) >= Len(expected)
    /\ shake' =
         CASE e.pc = "send_line" ->
                [Written(shake, "snd", make_send_handshake(shake.key.snd))
                    EXCEPT !.snd.pc = "wait_line"]
           [] e.pc = "wait_line" ->
                IF SameBytes(expected, read.snd.rx)
                THEN [read EXCEPT !.snd.pc = "go"]
                ELSE Refused(read, "snd", "handshake failed")
           [] e.pc = "go" ->
                Succeeds([Written(shake, "snd", go_msg) EXCEPT !.snd.went = TRUE],
                         "snd")
    /\ UNCHANGED <<mainVars, wormhole, got, transit, nego, record>>

\* rx_handshake_exchange, the role part: the receiver line, then 90 bytes
\* that must be the sender line of the own key and "go\n"
RxStep ==
    LET e == shake.rcv
        expected == make_send_handshake(shake.key.rcv) \o go_msg
        read == Taken(shake, "rcv", Len(expected))
    IN
    /\ e.pc \in {"send_line", "wait_line"}
    /\ e.pc = "wait_line" => Len(shake.in.rcv) >= Len(expected)
    /\ shake' =
         CASE e.pc = "send_line" ->
                [Written(shake, "rcv", make_receive_handshake(shake.key.rcv))
                    EXCEPT !.rcv.pc = "wait_line"]
           [] e.pc = "wait_line" ->
                IF SameBytes(expected, read.rcv.rx)
                THEN Succeeds(read, "rcv")
                ELSE Refused(read, "rcv", "handshake failed")
    /\ UNCHANGED <<mainVars, wormhole, got, transit, nego, record>>

\* a write or a read on the socket fails, or five seconds pass in a read:
\* `?` returns the error, the unwrap of the receiver's role part panics
IoFails(end) ==
    LET e == shake[end] IN
    /\ e.pc \in {"relay_send", "relay_wait", "send_line", "wait_line", "go"}
    /\ shake' =
         IF end = "rcv" /\ e.pc \in {"send_line", "wait_line"}
         THEN [shake EXCEPT !.rcv.pc = "panicked"]
         ELSE Refused(shake, end, "io error")
    /\ UNCHANGED <<mainVars, wormhole, got, transit, nego, record>>

NextHandshake ==
    \/ \E end \in Ends : RelayStep(end) \/ IoFails(end)
    \/ \E end \in Ends, reply \in RelayReplies : RelayRefuses(end, reply)
    \/ RelayPairs \/ TxStep \/ RxStep

SpecHandshake == InitHandshake /\ [][NextHandshake]_vars

SameKey == shake.key.snd = shake.key.rcv

\* C30: a side's handshake succeeds only if the peer has shown the same
\* transit key.  The sender sends "go" and returns the record keys only
\* after it read the receiver line of its own key; the receiver returns the
\* record keys only after it read the sender line of its own key with "go"
\* right after it.  With the same key the lines match and both sides return
\* the same pair of record keys; with different keys no side succeeds.
C30_Handshake ==
    /\ (shake.snd.went \/ shake.snd.result = "Ok") =>
          /\ shake.snd.rx = make_receive_handshake(shake.key.snd)
          /\ SameKey
    /\ shake.snd.result = "Ok" => shake.snd.went
    /\ shake.rcv.result = "Ok" =>
          /\ shake.rcv.rx = make_send_handshake(shake.key.rcv) \o go_msg
          /\ shake.snd.went /\ SameKey
    /\ (shake.snd.result = "Ok" /\ shake.rcv.result = "Ok") =>
          /\ shake.snd.keys = shake.rcv.keys
          /\ shake.snd.keys = make_record_keys(shake.key.snd)
    /\ SameKey =>
          /\ shake.snd.result # "handshake failed"
          /\ shake.rcv.result # "handshake failed"
    /\ ~SameKey => shake.snd.result # "Ok" /\ shake.rcv.result # "Ok"

\* both sides have succeeded through the relay
C30_Witness ==
    /\ shake.relay /\ shake.snd.result = "Ok" /\ shake.rcv.result = "Ok"
    /\ shake.snd.keys = shake.rcv.keys /\ Len(shake.snd.keys) = 2

\* with different keys the sender has refused the line it read
C30_WitnessDiffer ==
    /\ ~SameKey /\ shake.snd.result = "handshake failed" /\ ~shake.snd.went

\* the role lines of an end
RoleLines(end) ==
    {make_send_handshake(shake.key[end]), make_receive_handshake(shake.key[end])}

\* the relay line of an end
RelayLine(end) == make_relay_handshake(shake.key[end], end)

\* C31: on a relay hint each side sends its "please relay" line and must
\* read exactly "ok\n" before it sends a role line; any other three bytes
\* fail the handshake on that hint.  On a direct hint no relay line is sent
\* and no "ok" is awaited.
C31_RelayFirst ==
    \A end \in Ends :
        LET t == shake[end].trace IN
        /\ shake.relay =>
              /\ t # <<>> => t[1] = <<"sent", RelayLine(end)>>
              /\ Len(t) >= 2 => t[2][1] = "read" /\ Len(t[2][2]) = Len(ok_msg)
              /\ (Len(t) >= 2 /\ t[2][2] # ok_msg) =>
                    /\ Len(t) = 2 /\ shake[end].pc = "done"
                    /\ shake[end].result = "relay handshake failed"
              /\ \A j \in 1..Len(t) :
                    (t[j][1] = "sent" /\ t[j][2] \in RoleLines(end)) =>
                        j > 2 /\ t[2] = <<"read", ok_msg>>
        /\ ~shake.relay =>
              /\ t # <<>> => t[1][1] = "sent" /\ t[1][2] \in RoleLines(end)
              /\ \A j \in 1..Len(t) :
                    /\ t[j] # <<"sent", RelayLine(end)>>
                    /\ t[j] # <<"read", ok_msg>>

\* on a relay hint one side read three other bytes and gave the hint up, the
\* other is still waiting for its answer
C31_Witness ==
    /\ shake.relay
    /\ shake.snd.result = "relay handshake failed"
    /\ shake.snd.trace = <<<<"sent", RelayLine("snd")>>, <<"read", <<"no\n">>>>>>
    /\ shake.rcv.pc = "relay_wait"

\* the plaintext of record number i of a file, in blocks of BlockSize
Block(file, i) ==
    SubSeq(file, (i - 1) * BlockSize + 1,
           IF i * BlockSize < Len(file) THEN i * BlockSize ELSE Len(file))

\* send_records has returned: the sender waits for the ack or has read it
SentAll == transit.snd.pc = "ack" \/ transit.snd.ack # <<>>

\* the records of the sender: full blocks of the file in their order, and
\* after send_records floor(s / BlockSize) + 1 of them, the last with the
\* s mod BlockSize bytes that are left (none for a multiple of BlockSize)
RecordsOfFile ==
    LET file == transit.snd.file
        sent == transit.snd.sent
    IN
    /\ Len(sent) <= Len(file) \div BlockSize + 1
    /\ \A i \in 1..Len(sent) :
          /\ sent[i].pt = Block(file, i)
          /\ i < Len(sent) => Len(sent[i].pt) = BlockSize
    /\ SentAll =>
          /\ Len(sent) = Len(file) \div BlockSize + 1
          /\ Len(sent[Len(sent)].pt) = Len(file) % BlockSize

\* what the sender reads after its last record is the ack of the receiver
AckIsNextRead ==
    transit.snd.ack # <<>> =>
        /\ Len(transit.rcv.sent) = 1
        /\ transit.snd.ack[1] = transit.rcv.sent[1].pt

\* the receiver takes a record from the connection
ReadsRecord == Len(transit'.s2r) < Len(transit.s2r)

\* C32: a file of s bytes goes out in floor(s / 4096) + 1 records, all but
\* the last of 4096 bytes and the last of s mod 4096 bytes, so that a file of
\* a multiple of 4096 bytes, the empty file included, ends with an empty
\* record; the receiver stops reading as soon as it has the offered filesize
\* bytes; the sender's next read after its last record is the transit ack.
C32_Records ==
    /\ [](RecordsOfFile /\ AckIsNextRead)
    /\ [][ReadsRecord =>
              Len(transit.rcv.written) < transit.rcv.filesize]_vars

\* what the code does keep: the same, the receiver's part for an offer whose
\* filesize is the size of the file
C32_RecordsOfSize ==
    /\ [](RecordsOfFile /\ AckIsNextRead)
    /\ [][(ReadsRecord /\ transit.rcv.filesize = Len(transit.snd.file)) =>
              Len(transit.rcv.written) < transit.rcv.filesize]_vars

\* a file of one full block went out as that block and an empty record; the
\* receiver left the empty record unread and the sender has read the ack
C32_Witness ==
    /\ Len(transit.snd.file) = BlockSize /\ transit.rcv.filesize = BlockSize
    /\ Len(transit.snd.sent) = 2 /\ transit.snd.sent[2].pt = <<>>
    /\ Len(transit.s2r) = 1 /\ transit.snd.result = "Ok"

\* C33: the receiver's outcome does not depend on the comparison of the
\* checksums.  tcp_file_receive returns Ok whenever it has decrypted records
\* of the offered filesize in all and written its ack; the ack always says
\* "ok" and carries the receiver's own sha256; the sender's verdict is that
\* of the sha256 alone; so when the sender returns the checksum error the
\* receiver has still returned Ok.
C33_ReceiverOk ==
    /\ transit.rcv.acked <=> Len(transit.rcv.sent) = 1
    /\ transit.rcv.acked =>
          /\ transit.rcv.pc = "done" /\ transit.rcv.result = "Ok"
          /\ Len(transit.rcv.written) = transit.rcv.filesize
          /\ transit.rcv.sent[1].pt.ack = "ok"
          /\ transit.rcv.sent[1].pt.sha256 = HexEncode(Sha256(transit.rcv.written))
    /\ transit.snd.ack # <<>> =>
          /\ transit.snd.pc = "done"
          /\ transit.snd.result =
                IF transit.snd.ack[1].sha256 = HexEncode(Sha256(transit.snd.hasher))
                THEN "Ok" ELSE "receive checksum error"
    /\ transit.snd.result = "receive checksum error" =>
          transit.snd.ack # <<>> /\ transit.rcv.result = "Ok"

\* the sender has returned the checksum error over an ack that says "ok",
\* and the receiver has returned Ok
C33_Witness ==
    /\ transit.snd.result = "receive checksum error"
    /\ transit.snd.ack[1].ack = "ok"
    /\ transit.rcv.result = "Ok" /\ transit.rcv.pc = "done"
====
